---- MODULE Spec2Model ----
(***************************************************************************)
(* A model of canva-public/dependency-tree: the DependencyTree class       *)
(* (gather, resolveAndCollect, getDependencies, getReferences) and the     *)
(* DirectedGraph it queries (transpose, manyWalkDfs, walkDfs).             *)
(*                                                                         *)
(* Maps (Map<K, Set<V>>) are functions whose DOMAIN is the key set; a key  *)
(* that is absent from the Map is absent from the DOMAIN.  A JavaScript    *)
(* Set iterates in insertion order: wherever the code iterates a Set whose *)
(* insertion order is not part of the model, every order is explored.      *)
(***************************************************************************)
EXTENDS Integers, Sequences, FiniteSets, TLC

VARIABLES
  \* ---- DependencyTree.getDependencies / getReferences / DirectedGraph
  qFileToDeps,   \* the fileToDeps argument of the query (an edge map)
  qFiles,        \* the files argument of the query (the entrypoints, a list)
  qCall,         \* which entry point was called
  qpc,           \* position of the query: "called", "walk", "returned"
  edges,         \* DirectedGraph.edges of the graph being walked / transposed
  nTransposed,   \* how many times transpose() was applied to reach edges
  epIndex,       \* manyWalkDfs: index of the next entrypoint to walk
  toVisit,       \* walkDfs: the Stack (top is the last element)
  visited,       \* manyWalkDfs: the visited set shared by all walks
  yielded,       \* the sequence of nodes yielded by manyWalkDfs so far
  related,       \* findRelatedFiles: its own `visited` set, the result
  results,       \* the Sets earlier queries returned, as their callers hold them
  \* ---- DependencyTree.gather
  files,         \* what getFiles() returns: the discovered files, a list
  batchSize,     \* the batchSize option gather is called with
  gpc,           \* position of gather: "idle", "scanning", "returned", "failed"
  fileIndex,     \* index in files of the next file of the for loop
  fileToDeps,    \* gather's fileToDeps Map, returned as `resolved`
  missing,       \* the missing Map (gather's local, resolveAndCollect's argument)
  disk,          \* the files read so far, each with what was read from it
  ran,           \* the (file, processor) pairs of the process calls made, in order
  \* ---- DependencyTree.resolveAndCollect
  resolver,      \* the answers of the injected resolver, as far as it was asked
  resolverCalls, \* every (directory, request) pair resolveSync was called with
  importedModules, \* per referencing file, the importedModules Set of its caller
  handed,        \* every (file, reference string) handed to resolveAndCollect
  escaped,       \* whether an exception left resolveAndCollect
  \* ---- FeatureFileProcessor and the tree it is registered with
  tree,          \* the file tree on disk: the feature, stories and steps files
  storybookDefinitions, \* FeatureFileProcessor.storybookDefinitions
  stepsDefinitions,     \* FeatureFileProcessor.stepsDefinitions
  nGathers,      \* how many times gather() was invoked on the instance
  reads,         \* the paths read from disk during the gather run, in order
  tasks,         \* the process calls of the FeatureFileProcessor under way
  settled,       \* which of the two promises of the processor have resolved
  builds,        \* per promise field, how many promises were created for it
  \* ---- DirectiveProcessor.process / getDirectives
  dBlocks,       \* how the file was written: its lines, or groups of lines
  content,       \* the content of the file, as a sequence of tokens
  exists,        \* the files that exist on disk, for the default resolver
  dpc,           \* position of process: "called", "returned"
  dResult,       \* what process gave: threw, error, directives, importedFiles
  \* ---- TypeScriptFileProcessor.process
  tsInput,       \* the file, what is found in it and what its references meet
  tpc,           \* position of process: "called", "returned"
  tsOutput       \* what process gave: threw, error, importedFiles, transformed

qvars == <<qFileToDeps, qFiles, qCall, qpc, edges, nTransposed, epIndex,
           toVisit, visited, yielded, related, results>>

gvars == <<files, batchSize, gpc, fileIndex, fileToDeps, missing, disk, ran>>

rvars == <<resolver, resolverCalls, importedModules, handed, escaped>>

fvars == <<tree, storybookDefinitions, stepsDefinitions, nGathers, reads,
           tasks, settled, builds>>

dvars == <<dBlocks, content, exists, dpc, dResult>>

tvars == <<tsInput, tpc, tsOutput>>

vars == <<qvars, gvars, rvars, fvars, dvars, tvars>>

(***************************************************************************)
(* Bounds of the model                                                     *)
(***************************************************************************)
\* longest list of entrypoints handed to a query
MaxEntrypoints == 2
\* how many times in a row transpose() is applied
MaxTransposes == 2
\* how many queries a caller makes on one edge map
MaxQueries == 2

\* longest array of strings handed to resolveAndCollect
MaxArrayLen == 2
\* most discovered files in a run (a file found under two roots counts twice)
MaxFiles == 2
\* the nodes of the graphs that are explored
Nodes == {"a", "b", "c"}

(***************************************************************************)
(* Helpers for Map and Set values                                          *)
(***************************************************************************)
EmptyMap == [k \in {} |-> {}]

MapHas(m, k) == k \in DOMAIN m

MapSet(m, k, v) == [x \in (DOMAIN m) \cup {k} |-> IF x = k THEN v ELSE m[x]]

\* the lists of length at most n over S
SeqsUpTo(S, n) == UNION {[1..k -> S] : k \in 0..n}

Range(s) == {s[i] : i \in DOMAIN s}

\* every order in which a Set can be iterated
Orders(S) == {o \in [1..Cardinality(S) -> S] : Range(o) = S}

\* every edge map over Nodes: each node is absent, or maps to a set of nodes
EdgeMaps == UNION {[K -> SUBSET Nodes] : K \in SUBSET Nodes}

\* the (source, target) pairs of an edge map
Pairs(m) == {<<a, b>> \in (DOMAIN m) \X Nodes : b \in m[a]}

(***************************************************************************)
(* DirectedGraph.transpose                                                 *)
(***************************************************************************)
\* A slip in the inner loop: the reversed edge replaces the set that is
\* already stored under endpointNode instead of joining it.
TransposeEdge_Overwrite(invertedEdges, node, endpointNode) ==
  MapSet(invertedEdges, endpointNode, {node})

\* One iteration of the inner loop: the edge (node, endpointNode) is added to
\* invertedEdges, under endpointNode.
TransposeEdge(invertedEdges, node, endpointNode) ==
  IF MapHas(invertedEdges, endpointNode)
    THEN MapSet(invertedEdges, endpointNode, invertedEdges[endpointNode] \cup {node})
    ELSE MapSet(invertedEdges, endpointNode, {node})

RECURSIVE TransposeLoop(_, _)
\* The two nested loops over the entries of this.edges, as a loop over the
\* (node, endpointNode) pairs that are left.
TransposeLoop(left, invertedEdges) ==
  IF left = {} THEN invertedEdges
  ELSE LET e == CHOOSE x \in left : TRUE
       IN TransposeLoop(left \ {e}, TransposeEdge(invertedEdges, e[1], e[2]))

\* A slip in transpose: invertedEdges starts with an empty entry for every
\* key of this.edges instead of starting empty.
Transpose_KeepKeys(es) == TransposeLoop(Pairs(es), [k \in DOMAIN es |-> {}])

Transpose(es) == TransposeLoop(Pairs(es), EmptyMap)

(***************************************************************************)
(* Paths, reference strings and the injected resolver                      *)
(***************************************************************************)
\* the files of the tree that discovery can find
SourceFiles == {"/r/a.ts", "/r/s/b.ts"}

\* path.dirname, on the paths of the model
Dirname(file) ==
  CASE file = "/r/a.ts" -> "/r"
    [] file = "/r/s/b.ts" -> "/r/s"
    [] file = "/r/m.entry.ts" -> "/r"

\* the reference strings of the model: the empty string, a built-in module
\* name and a relative reference
RefStrings == {"", "fs", "./b"}

\* builtin-modules: `path`, `fs`, etc.
builtinModules == {"fs", "path"}

\* JavaScript truthiness of a string (or of undefined, null: see Results)
Truthy(str) == str # ""

\* What resolveSync can do with a request: return the path of a source file
\* or of a file that discovery does not find, return a falsy value (written
\* "") or throw.
Results ==
  { [kind |-> "returns", value |-> "/r/s/b.ts"],
    [kind |-> "returns", value |-> "/r/a.png"],
    [kind |-> "returns", value |-> ""],
    [kind |-> "throws", value |-> ""] }

\* The resolver is a function of (directory, request).  Its answers are fixed
\* the first time a call mentions the pair and are the same ever after.
Reveal(r, keys) ==
  { [k \in (DOMAIN r) \cup keys |-> IF k \in DOMAIN r THEN r[k] ELSE ext[k]] :
      ext \in [keys \ (DOMAIN r) -> Results] }

\* a referencedModule argument: a string, or an array of strings
StringModule(str) == [isArray |-> FALSE, str |-> str, arr |-> <<>>]

ArrayModule(arr) == [isArray |-> TRUE, str |-> "", arr |-> arr]

ReferencedModules ==
  {StringModule(str) : str \in RefStrings}
    \cup {ArrayModule(arr) : arr \in SeqsUpTo(RefStrings, MaxArrayLen)}

\* the strings a referencedModule argument holds
StringsOf(referencedModule) ==
  IF referencedModule.isArray THEN Range(referencedModule.arr)
  ELSE {referencedModule.str}

(***************************************************************************)
(* DependencyTree.resolveAndCollect                                        *)
(*                                                                         *)
(* The operators work on a record st of what the call can change:          *)
(* importedModules (the Set argument), missingModules (the Map argument),  *)
(* calls (the resolver's call log) and threw (an exception is on its way   *)
(* out).                                                                   *)
(***************************************************************************)
\* A slip: missingModules.set(file, missingFileDeps) is done outside the test,
\* for a falsy reference too.
CollectMissing_SetWhenFalsy(file, referencedModule, st) ==
  LET missingFileDeps ==
        IF MapHas(st.missingModules, file)
          THEN st.missingModules[file] ELSE {}
  IN [st EXCEPT !.missingModules =
        MapSet(st.missingModules, file,
               IF Truthy(referencedModule)
                 THEN missingFileDeps \cup {referencedModule}
                 ELSE missingFileDeps)]

\* lines 297-302: the reference is recorded as missing, if it is truthy
CollectMissing(file, referencedModule, st) ==
  IF Truthy(referencedModule)
    THEN LET missingFileDeps ==
               IF MapHas(st.missingModules, file)
                 THEN st.missingModules[file] ELSE {}
         IN [st EXCEPT !.missingModules =
               MapSet(st.missingModules, file,
                      missingFileDeps \cup {referencedModule})]
    ELSE st

\* A slip: the test for a built-in module is left out.
ResolveString_NoBuiltinCheck(file, referencedModule, st, answers) ==
  LET request == <<Dirname(file), referencedModule>>
      resolved == answers[request]
      asked == [st EXCEPT !.calls = st.calls \cup {request}]
  IN IF resolved.kind = "returns" /\ Truthy(resolved.value)
       THEN [asked EXCEPT !.importedModules =
               asked.importedModules \cup {resolved.value}]
       ELSE CollectMissing(file, referencedModule, asked)

\* lines 274-303: resolveAndCollect of one string
ResolveString(file, referencedModule, st, answers) ==
  IF referencedModule \in builtinModules THEN st
  ELSE LET request == <<Dirname(file), referencedModule>>
           resolved == answers[request]
           asked == [st EXCEPT !.calls = st.calls \cup {request}]
       IN IF resolved.kind = "returns" /\ Truthy(resolved.value)
            THEN [asked EXCEPT !.importedModules =
                    asked.importedModules \cup {resolved.value}]
            \* a throw is caught and logged; a falsy answer falls through
            ELSE CollectMissing(file, referencedModule, asked)

RECURSIVE ResolveArray(_, _, _, _, _)
\* lines 268-273: the for loop over the elements of an array, from index i
ResolveArray(file, arr, i, st, answers) ==
  IF i > Len(arr) \/ st.threw THEN st
  ELSE ResolveArray(file, arr, i + 1,
                    ResolveString(file, arr[i], st, answers), answers)

\* resolveAndCollect(file, referencedModule, importedModules, missingModules)
ResolveAndCollect(file, referencedModule, st, answers) ==
  IF referencedModule.isArray
    THEN ResolveArray(file, referencedModule.arr, 1, st, answers)
    ELSE ResolveString(file, referencedModule.str, st, answers)

ResolveIdle ==
  /\ resolver = EmptyMap
  /\ resolverCalls = {}
  /\ importedModules = [f \in SourceFiles |-> {}]
  /\ handed = {}
  /\ escaped = FALSE

\* a cache field of FeatureFileProcessor: undefined, or the Map it was given
Undefined == [defined |-> FALSE, map |-> EmptyMap]

\* a tree with a feature file that references nothing and no other file
BareTree ==
  [referenced |-> {},
   stories |-> [present |-> FALSE, storybooks |-> {}],
   steps |-> [present |-> FALSE, regExps |-> {}]]

\* no FeatureFileProcessor has been used
FeatureIdle ==
  /\ tree = BareTree
  /\ storybookDefinitions = Undefined
  /\ stepsDefinitions = Undefined
  /\ nGathers = 0
  /\ reads = <<>>
  /\ tasks = <<>>
  /\ settled = {}
  /\ builds = [storybookDefinitions |-> 0, stepsDefinitions |-> 0]

\* what process of the TypeScript processor has given before it is called
NoOutput ==
  [threw |-> FALSE, error |-> "none", importedFiles |-> {}, transformed |-> <<>>]

\* no file is handed to the TypeScript processor
TypeScriptIdle ==
  /\ tsInput = [file |-> "/r/a.ts"]
  /\ tpc = "called"
  /\ tsOutput = NoOutput

\* what process has given before it is called
NoResult ==
  [threw |-> FALSE,
   error |-> [type |-> "none", message |-> <<>>, line |-> 0, column |-> 0],
   directives |-> <<>>,
   importedFiles |-> {},
   lastIndex |-> 1]

\* no DirectiveProcessor has been handed a file
DirectiveIdle ==
  /\ dBlocks = <<>>
  /\ content = <<>>
  /\ exists = {}
  /\ dpc = "called"
  /\ dResult = NoResult

\* no query is under way
QIdle ==
  /\ qFileToDeps = EmptyMap
  /\ qFiles = <<>>
  /\ qCall = "none"
  /\ qpc = "called"
  /\ edges = EmptyMap
  /\ nTransposed = 0
  /\ epIndex = 1
  /\ toVisit = <<>>
  /\ visited = {}
  /\ yielded = <<>>
  /\ related = {}
  /\ results = <<>>

\* a caller hands one reference of a file to resolveAndCollect, with the
\* importedModules Set it keeps for that file and the missing Map
ResolveAndCollectCall ==
  /\ \E file \in SourceFiles, referencedModule \in ReferencedModules :
       \E answers \in Reveal(resolver,
                             {<<Dirname(file), str>> : str \in StringsOf(referencedModule)}) :
         \E out \in {ResolveAndCollect(file, referencedModule,
                        [importedModules |-> importedModules[file],
                         missingModules |-> missing,
                         calls |-> resolverCalls,
                         threw |-> FALSE], answers)} :
            /\ importedModules' = [importedModules EXCEPT ![file] = out.importedModules]
            /\ missing' = out.missingModules
            /\ resolverCalls' = out.calls
            /\ escaped' = (escaped \/ out.threw)
            /\ resolver' = answers
            /\ handed' = handed \cup {<<file, str>> : str \in StringsOf(referencedModule)}
  /\ UNCHANGED <<files, batchSize, gpc, fileIndex, fileToDeps, disk, ran>>
  /\ UNCHANGED <<qvars, fvars, dvars, tvars>>

(***************************************************************************)
(* File processors and DependencyTree.gather                               *)
(***************************************************************************)
\* this.fileProcessors, in the order of addFileProcessor
fileProcessors == <<"p1", "p2">>

\* the default transformReference: (ref) => ref
TransformReference(ref, file) == StringModule(ref)

\* What one processor extracts from one file: a Set of reference strings, in
\* its iteration order.  The files of the model hold at most one reference
\* for each processor.
ExtractedRefs == {<<>>} \cup {<<str>> : str \in RefStrings}

\* What the run learns of a file when it reads it: the processors whose match
\* accepts it, for each the references it extracts from the content, and the
\* processors whose process rejects on this content (a directive that does not
\* validate, an array reference in TypeScript) before it hands any reference.
FileInfos ==
  UNION {{i \in [match : {M}, refs : [M -> ExtractedRefs], rejects : SUBSET M] :
            \A p \in i.rejects : i.refs[p] = <<>>} :
           M \in SUBSET Range(fileProcessors)}

\* every string some matching processor extracts from the file
RefsOfFile(info) == UNION {Range(info.refs[p]) : p \in info.match}

\* the requests the resolver can be sent for a file: a built-in module name
\* is never sent (line 274)
RequestsOfFile(file, info) ==
  {<<Dirname(file), str>> : str \in RefsOfFile(info) \ builtinModules}

RECURSIVE ProcessRefs(_, _, _, _, _)
\* FileProcessor.process of the JavaScript and CSS processors: forEach
\* reference, resolveAndCollect(file, transformReference(ref, file), ...)
ProcessRefs(file, refs, i, st, answers) ==
  IF i > Len(refs) \/ st.threw THEN st
  ELSE ProcessRefs(file, refs, i + 1,
                   ResolveAndCollect(file, TransformReference(refs[i], file),
                                     st, answers), answers)

RECURSIVE ProcessorsLoop(_, _, _, _, _)
\* getImportedFiles: the loop over this.fileProcessors, from index i.  acc
\* holds allImported, matched, the missing Map, the call log, threw and the
\* processors whose process was called.
ProcessorsLoop(file, info, i, acc, answers) ==
  IF i > Len(fileProcessors) \/ acc.threw THEN acc
  ELSE LET fileProcessor == fileProcessors[i]
       IN IF fileProcessor \in info.match
            THEN LET out == ProcessRefs(file, info.refs[fileProcessor], 1,
                              [importedModules |-> {},
                               missingModules |-> acc.missing,
                               calls |-> acc.calls,
                               threw |-> fileProcessor \in info.rejects], answers)
                 IN ProcessorsLoop(file, info, i + 1,
                      [allImported |-> acc.allImported \cup out.importedModules,
                       matched |-> TRUE,
                       missing |-> out.missingModules,
                       calls |-> out.calls,
                       threw |-> out.threw,
                       ran |-> Append(acc.ran, fileProcessor)], answers)
            ELSE ProcessorsLoop(file, info, i + 1, acc, answers)

\* A slip: a file that no processor matched gets an empty set instead of an error.
GetImportedFiles_NoThrow(file, info, missingModules, calls, answers) ==
  ProcessorsLoop(file, info, 1,
    [allImported |-> {}, matched |-> FALSE,
     missing |-> missingModules, calls |-> calls,
     threw |-> FALSE, ran |-> <<>>], answers)

\* getImportedFiles(file, missing, files); it throws when no processor matched
GetImportedFiles(file, info, missingModules, calls, answers) ==
  LET acc == ProcessorsLoop(file, info, 1,
               [allImported |-> {}, matched |-> FALSE,
                missing |-> missingModules, calls |-> calls,
                threw |-> FALSE, ran |-> <<>>], answers)
  IN [acc EXCEPT !.threw = acc.threw \/ ~ acc.matched]

\* A slip: a file without dependencies gets no entry.
FileToDepsSet_SkipEmpty(map, file, importedFiles) ==
  IF importedFiles = {} THEN map ELSE MapSet(map, file, importedFiles)

\* fileToDeps.set(file, importedFiles)
FileToDepsSet(map, file, importedFiles) == MapSet(map, file, importedFiles)

\* the batch sizes gather is called with
BatchSizes == {-1, 1, 2}

GatherIdle ==
  /\ files = <<>>
  /\ batchSize = 1
  /\ gpc = "idle"
  /\ fileIndex = 1
  /\ fileToDeps = EmptyMap
  /\ missing = EmptyMap
  /\ disk = EmptyMap
  /\ ran = <<>>

\* gather is called with a batchSize, on a tree in which getFiles() finds files
GInit ==
  /\ files \in SeqsUpTo(SourceFiles, MaxFiles)
  /\ batchSize \in BatchSizes
  /\ gpc = "idle"
  /\ fileIndex = 1
  /\ fileToDeps = EmptyMap
  /\ missing = EmptyMap
  /\ disk = EmptyMap
  /\ ran = <<>>
  /\ ResolveIdle
  /\ QIdle
  /\ TypeScriptIdle
  /\ FeatureIdle
  /\ DirectiveIdle

\* gather, lines 235-238: the two Maps are created, the files are listed
GatherStart ==
  /\ gpc = "idle"
  /\ fileToDeps' = EmptyMap
  /\ missing' = EmptyMap
  /\ fileIndex' = 1
  /\ gpc' = "scanning"
  /\ reads' = <<>>
  /\ UNCHANGED <<files, batchSize, disk, ran>>
  /\ UNCHANGED <<tree, storybookDefinitions, stepsDefinitions, nGathers>>
  /\ UNCHANGED <<tasks, settled, builds>>
  /\ UNCHANGED <<rvars, qvars, dvars, tvars>>

\* gather, lines 240-244: one turn of the for loop.  The file is read, every
\* matching processor runs, the result is stored; an exception of
\* getImportedFiles rejects gather's promise.
GatherScanFile ==
  /\ gpc = "scanning" /\ fileIndex <= Len(files)
  /\ LET file == files[fileIndex]
     IN \E info \in (IF MapHas(disk, file) THEN {disk[file]} ELSE FileInfos) :
          \E answers \in Reveal(resolver, RequestsOfFile(file, info)) :
            LET out == GetImportedFiles(file, info, missing, resolverCalls, answers)
            IN /\ disk' = MapSet(disk, file, info)
               /\ reads' = Append(reads, file)
               /\ ran' = ran \o [k \in 1..Len(out.ran) |-> <<file, out.ran[k]>>]
               /\ resolver' = answers
               /\ resolverCalls' = out.calls
               /\ missing' = out.missing
               /\ IF out.threw
                    THEN /\ gpc' = "failed"
                         /\ UNCHANGED <<fileToDeps, fileIndex>>
                    ELSE /\ fileToDeps' = FileToDepsSet(fileToDeps, file, out.allImported)
                         /\ fileIndex' = fileIndex + 1
                         /\ gpc' = gpc
  /\ UNCHANGED <<files, batchSize, importedModules, handed, escaped>>
  /\ UNCHANGED <<tree, storybookDefinitions, stepsDefinitions, nGathers>>
  /\ UNCHANGED <<tasks, settled, builds>>
  /\ UNCHANGED <<qvars, dvars, tvars>>

\* A slip: the loop ends after the first batchSize files.
GatherReturn_AfterFirstBatch ==
  /\ gpc = "scanning"
  /\ fileIndex > (IF batchSize < Len(files) THEN batchSize ELSE Len(files))
  /\ gpc' = "returned"
  /\ UNCHANGED <<files, batchSize, fileIndex, fileToDeps, missing, disk, ran>>
  /\ UNCHANGED <<rvars, qvars, fvars, dvars, tvars>>

\* gather, lines 246-249: the loop is over, the two Maps are returned
GatherReturn ==
  /\ gpc = "scanning" /\ fileIndex > Len(files)
  /\ gpc' = "returned"
  /\ UNCHANGED <<files, batchSize, fileIndex, fileToDeps, missing, disk, ran>>
  /\ UNCHANGED <<rvars, qvars, fvars, dvars, tvars>>

GNext ==
  \/ GatherStart
  \/ GatherScanFile
  \/ GatherReturn

SpecGather == GInit /\ [][GNext]_vars

\* resolveAndCollect is called by a processor, outside any gather run
RInit ==
  /\ GatherIdle
  /\ ResolveIdle
  /\ QIdle
  /\ TypeScriptIdle
  /\ FeatureIdle
  /\ DirectiveIdle

RNext == ResolveAndCollectCall

SpecResolve == RInit /\ [][RNext]_vars

(***************************************************************************)
(* FeatureFileProcessor, registered with addFileProcessor, and gather()    *)
(* invoked several times on the instance while the tree changes in between *)
(***************************************************************************)
\* most gather() invocations on the instance
MaxGathers == 2

\* the files of the tree: a Gherkin file, a stories file and a steps file
FeatureFile == "/r/x.feature"

StoriesFile == "/r/a.stories.tsx"

StepsFile == "/r/s.steps.ts"

\* the storybook names that occur
Storybooks == {"sb"}

\* the regular expressions of step definitions: one that matches the step
\* of the feature file and one that does not
StepRegExps == {"reHit", "reMiss"}

\* re.test(text), for the step text of the feature file
ReTest(re) == re = "reHit"

\* Every tree: the storybooks the steps of the feature file reference (what
\* extractorFn finds), whether the stories file exists and the storybooks it
\* defines, whether the steps file exists and the expressions it defines.
Trees ==
  {t \in [referenced : SUBSET Storybooks,
          stories : [present : BOOLEAN, storybooks : SUBSET Storybooks],
          steps : [present : BOOLEAN, regExps : SUBSET StepRegExps]] :
     /\ ~ t.stories.present => t.stories.storybooks = {}
     /\ ~ t.steps.present => t.steps.regExps = {}}

\* getFiles(): the supported files that exist
GetFilesOf(t) ==
  <<FeatureFile>>
    \o (IF t.stories.present THEN <<StoriesFile>> ELSE <<>>)
    \o (IF t.steps.present THEN <<StepsFile>> ELSE <<>>)

\* STORIES_FILE_RE.test(file)
STORIES_FILE_RE(file) == file = StoriesFile

\* STEPS_FILE_RE.test(file)
STEPS_FILE_RE(file) == file = StepsFile

\* the body of the promise of getStorybookDefinitions: a Map from storybook
\* to the stories files of the list that define it
BuildStorybookDefinitions(fileList, t) ==
  LET defining(sb) == {f \in Range(fileList) :
                         STORIES_FILE_RE(f) /\ sb \in t.stories.storybooks}
  IN [sb \in {x \in Storybooks : defining(x) # {}} |-> defining(sb)]

\* the files of the list that the promise of getStorybookDefinitions hands
\* to createTSSourceFile, which reads them (fs.promises.readFile)
StoriesFilesRead(fileList) == SelectSeq(fileList, STORIES_FILE_RE)

\* getStorybookDefinitions(files): this.storybookDefinitions, or a new promise
GetStorybookDefinitions(cache, fileList, t) ==
  IF cache.defined THEN cache
  ELSE [defined |-> TRUE, map |-> BuildStorybookDefinitions(fileList, t)]

\* the body of the promise of getStepsDefinitionRegExps: a Map from steps
\* file to the expressions it defines, without the files that define none
BuildStepsDefinitions(fileList, t) ==
  [f \in {x \in Range(fileList) : STEPS_FILE_RE(x) /\ t.steps.regExps # {}} |->
     t.steps.regExps]

\* the files of the list that the promise of getStepsDefinitionRegExps hands
\* to createTSSourceFile, which reads them
StepsFilesRead(fileList) == SelectSeq(fileList, STEPS_FILE_RE)

\* getStepsDefinitionRegExps(files): this.stepsDefinitions, or a new promise
GetStepsDefinitionRegExps(cache, fileList, t) ==
  IF cache.defined THEN cache
  ELSE [defined |-> TRUE, map |-> BuildStepsDefinitions(fileList, t)]

\* path.join(storybook.replace(/\./g, path.sep), 'stories', '*.stories.tsx')
MissingStoriesPath(storybook) ==
  CASE storybook = "sb" -> "sb/stories/*.stories.tsx"

\* FeatureFileProcessor.process(file, contents, missing, files), with the two
\* cache fields as it finds them; it gives importedFiles, the missing Map,
\* the cache fields as it leaves them and the paths it read from disk:
\* getSteps reads the Gherkin file (gherkin.fromPaths), a promise that is
\* created reads the stories or steps files of the list.
FeatureProcess(file, t, missingModules, fileList, sbCache, stCache) ==
  LET referencedStorybooks == t.referenced
      sbNext == IF referencedStorybooks # {}
                  THEN GetStorybookDefinitions(sbCache, fileList, t)
                  ELSE sbCache
      storyDefinitions == sbNext.map
      found == {sb \in referencedStorybooks : MapHas(storyDefinitions, sb)}
      lost == referencedStorybooks \ found
      missingFileDeps == IF MapHas(missingModules, file)
                           THEN missingModules[file] ELSE {}
      stNext == GetStepsDefinitionRegExps(stCache, fileList, t)
      stepsMap == stNext.map
  IN [importedFiles |->
        UNION {storyDefinitions[sb] : sb \in found}
          \cup {filePath \in DOMAIN stepsMap :
                  \E re \in stepsMap[filePath] : ReTest(re)},
      missing |->
        IF lost = {} THEN missingModules
        ELSE MapSet(missingModules, file,
                    missingFileDeps \cup {MissingStoriesPath(sb) : sb \in lost}),
      storybookDefinitions |-> sbNext,
      stepsDefinitions |-> stNext,
      read |-> <<file>>
                 \o (IF referencedStorybooks # {} /\ ~ sbCache.defined
                       THEN StoriesFilesRead(fileList) ELSE <<>>)
                 \o (IF ~ stCache.defined
                       THEN StepsFilesRead(fileList) ELSE <<>>)]

\* the instance was just built, over some tree
FInit ==
  /\ tree \in Trees
  /\ storybookDefinitions = Undefined
  /\ stepsDefinitions = Undefined
  /\ nGathers = 0
  /\ reads = <<>>
  /\ tasks = <<>>
  /\ settled = {}
  /\ builds = [storybookDefinitions |-> 0, stepsDefinitions |-> 0]
  /\ GatherIdle
  /\ ResolveIdle
  /\ QIdle
  /\ TypeScriptIdle
  /\ DirectiveIdle

\* gather, lines 235-238, on the instance with the FeatureFileProcessor
FeatureGatherStart ==
  /\ gpc = "idle" /\ nGathers < MaxGathers
  /\ fileToDeps' = EmptyMap
  /\ missing' = EmptyMap
  /\ files' = GetFilesOf(tree)
  /\ fileIndex' = 1
  /\ gpc' = "scanning"
  /\ nGathers' = nGathers + 1
  /\ reads' = <<>>
  /\ UNCHANGED <<batchSize, disk, ran, tree, storybookDefinitions, stepsDefinitions>>
  /\ UNCHANGED <<tasks, settled, builds>>
  /\ UNCHANGED <<rvars, qvars, dvars, tvars>>

\* gather, lines 240-244: one turn of the for loop.  The feature file is
\* processed by the FeatureFileProcessor; the stories and the steps file, which
\* import nothing, by the TypeScript processors.
FeatureScanFile ==
  /\ gpc = "scanning" /\ fileIndex <= Len(files)
  /\ LET file == files[fileIndex]
     IN IF file = FeatureFile
          THEN LET out == FeatureProcess(file, tree, missing, files,
                                         storybookDefinitions, stepsDefinitions)
               IN /\ fileToDeps' = FileToDepsSet(fileToDeps, file, out.importedFiles)
                  /\ missing' = out.missing
                  /\ storybookDefinitions' = out.storybookDefinitions
                  /\ stepsDefinitions' = out.stepsDefinitions
                  /\ reads' = Append(reads, file) \o out.read
          ELSE /\ fileToDeps' = FileToDepsSet(fileToDeps, file, {})
               /\ reads' = Append(reads, file)
               /\ UNCHANGED <<missing, storybookDefinitions, stepsDefinitions>>
  /\ fileIndex' = fileIndex + 1
  /\ UNCHANGED <<files, batchSize, gpc, disk, ran, tree, nGathers>>
  /\ UNCHANGED <<tasks, settled, builds>>
  /\ UNCHANGED <<rvars, qvars, dvars, tvars>>

\* gather, lines 246-249: the two Maps are returned
FeatureGatherReturn ==
  /\ gpc = "scanning" /\ fileIndex > Len(files)
  /\ gpc' = "returned"
  /\ UNCHANGED <<files, batchSize, fileIndex, fileToDeps, missing, disk, ran>>
  /\ UNCHANGED <<rvars, qvars, fvars, dvars, tvars>>

\* between two invocations files are written, changed or deleted
ChangeTree ==
  /\ gpc = "returned"
  /\ tree' \in Trees
  /\ gpc' = "idle"
  /\ UNCHANGED <<files, batchSize, fileIndex, fileToDeps, missing, disk, ran>>
  /\ UNCHANGED <<storybookDefinitions, stepsDefinitions, nGathers, reads>>
  /\ UNCHANGED <<tasks, settled, builds>>
  /\ UNCHANGED <<rvars, qvars, dvars, tvars>>

FNext ==
  \/ FeatureGatherStart
  \/ FeatureScanFile
  \/ FeatureGatherReturn
  \/ ChangeTree

SpecFeature == FInit /\ [][FNext]_vars

(***************************************************************************)
(* FeatureFileProcessor.process called for several files before the first  *)
(* call has finished: each call is a task that awaits the two promises      *)
(***************************************************************************)
\* most process calls under way at once
MaxTasks == 2

Tasks == 1..MaxTasks

\* a task that has not passed `await this.getSteps(file)`; referenced is
\* what getReferencedStorybookMapping finds in the steps of its file
NewTasks ==
  [Tasks -> [pc : {"start"}, referenced : SUBSET Storybooks,
             storyDefinitions : {EmptyMap}, stepsMap : {EmptyMap}]]

\* several calls of process are made on a new instance, with one file list
TInit ==
  /\ tree \in Trees
  /\ files = GetFilesOf(tree)
  /\ tasks \in NewTasks
  /\ storybookDefinitions = Undefined
  /\ stepsDefinitions = Undefined
  /\ settled = {}
  /\ builds = [storybookDefinitions |-> 0, stepsDefinitions |-> 0]
  /\ nGathers = 0
  /\ reads = <<>>
  /\ batchSize = 1 /\ gpc = "scanning" /\ fileIndex = 1
  /\ fileToDeps = EmptyMap /\ missing = EmptyMap /\ disk = EmptyMap
  /\ ran = <<>>
  /\ ResolveIdle
  /\ QIdle
  /\ TypeScriptIdle
  /\ DirectiveIdle

\* A slip in getStorybookDefinitions: the field is looked at, but the promise
\* is stored in it only when it has resolved, so a call that comes while the
\* first promise is pending creates another.
TaskGetStorybookDefinitions_StoreWhenSettled ==
  \E t \in Tasks :
    /\ tasks[t].pc = "start" /\ tasks[t].referenced # {}
    /\ LET create == "storybookDefinitions" \notin settled
       IN /\ storybookDefinitions' =
               [defined |-> TRUE, map |-> BuildStorybookDefinitions(files, tree)]
          /\ builds' = [builds EXCEPT !.storybookDefinitions =
                                       IF create THEN @ + 1 ELSE @]
    /\ tasks' = [tasks EXCEPT ![t].pc = "awaitStorybookDefinitions"]
    /\ UNCHANGED <<tree, stepsDefinitions, nGathers, reads, settled>>
    /\ UNCHANGED <<gvars, rvars, qvars, dvars, tvars>>

\* process, line 241: getStorybookDefinitions(files) is called and runs up to
\* its return: the field is used, or a promise is created and stored in it
TaskGetStorybookDefinitions ==
  \E t \in Tasks :
    /\ tasks[t].pc = "start" /\ tasks[t].referenced # {}
    /\ LET create == ~ storybookDefinitions.defined
       IN /\ storybookDefinitions' =
               GetStorybookDefinitions(storybookDefinitions, files, tree)
          /\ builds' = [builds EXCEPT !.storybookDefinitions =
                                       IF create THEN @ + 1 ELSE @]
    /\ tasks' = [tasks EXCEPT ![t].pc = "awaitStorybookDefinitions"]
    /\ UNCHANGED <<tree, stepsDefinitions, nGathers, reads, settled>>
    /\ UNCHANGED <<gvars, rvars, qvars, dvars, tvars>>

\* the executor of a promise has handled the files of the list: resolve(...)
PromiseResolves ==
  \E field \in {"storybookDefinitions", "stepsDefinitions"} :
    /\ field \notin settled
    /\ IF field = "storybookDefinitions"
         THEN storybookDefinitions.defined ELSE stepsDefinitions.defined
    /\ settled' = settled \cup {field}
    /\ UNCHANGED <<tree, storybookDefinitions, stepsDefinitions, nGathers,
                   reads, tasks, builds>>
    /\ UNCHANGED <<gvars, rvars, qvars, dvars, tvars>>

\* process, line 241: the await of the storybook promise is over
TaskReceiveStorybookDefinitions ==
  \E t \in Tasks :
    /\ tasks[t].pc = "awaitStorybookDefinitions"
    /\ "storybookDefinitions" \in settled
    /\ tasks' = [tasks EXCEPT ![t].pc = "gotStorybookDefinitions",
                              ![t].storyDefinitions = storybookDefinitions.map]
    /\ UNCHANGED <<tree, storybookDefinitions, stepsDefinitions, nGathers,
                   reads, settled, builds>>
    /\ UNCHANGED <<gvars, rvars, qvars, dvars, tvars>>

\* process, line 267: getStepsDefinitionRegExps(files) is called
TaskGetStepsDefinitionRegExps ==
  \E t \in Tasks :
    /\ \/ tasks[t].pc = "gotStorybookDefinitions"
       \/ tasks[t].pc = "start" /\ tasks[t].referenced = {}
    /\ LET create == ~ stepsDefinitions.defined
       IN /\ stepsDefinitions' =
               GetStepsDefinitionRegExps(stepsDefinitions, files, tree)
          /\ builds' = [builds EXCEPT !.stepsDefinitions =
                                       IF create THEN @ + 1 ELSE @]
    /\ tasks' = [tasks EXCEPT ![t].pc = "awaitStepsDefinitions"]
    /\ UNCHANGED <<tree, storybookDefinitions, nGathers, reads, settled>>
    /\ UNCHANGED <<gvars, rvars, qvars, dvars, tvars>>

\* process, line 267: the await of the steps promise is over
TaskReceiveStepsDefinitions ==
  \E t \in Tasks :
    /\ tasks[t].pc = "awaitStepsDefinitions"
    /\ "stepsDefinitions" \in settled
    /\ tasks' = [tasks EXCEPT ![t].pc = "done",
                              ![t].stepsMap = stepsDefinitions.map]
    /\ UNCHANGED <<tree, storybookDefinitions, stepsDefinitions, nGathers,
                   reads, settled, builds>>
    /\ UNCHANGED <<gvars, rvars, qvars, dvars, tvars>>

TNext ==
  \/ TaskGetStorybookDefinitions
  \/ PromiseResolves
  \/ TaskReceiveStorybookDefinitions
  \/ TaskGetStepsDefinitionRegExps
  \/ TaskReceiveStepsDefinitions

SpecFeatureTasks == TInit /\ [][TNext]_vars

(***************************************************************************)
(* DirectiveProcessor (TSDirectiveProcessor): process and getDirectives    *)
(*                                                                         *)
(* The content of a file is a sequence of tokens; a token is a piece of    *)
(* text that the regular expressions of the processor take or leave as a   *)
(* whole.  xml2js and camelcase are modelled by what they give on the      *)
(* element bodies that occur.                                              *)
(***************************************************************************)
\* most lines, or groups of lines, of a file
MaxBlocks == 2

\* '<' + DirectiveProcessor.ELEMENT_NAME
ELEMENT_NAME == "<dependency-tree"

\* the attributes that are written in the files, name and quoted value
AttrTokens ==
  {"depends-on='./dep1.sh'", "depends-on=''", "depends-on='./dir1/**/*'",
   "example='demo'"}

AttrName(tok) ==
  CASE tok = "depends-on='./dep1.sh'" -> "depends-on"
    [] tok = "depends-on=''" -> "depends-on"
    [] tok = "depends-on='./dir1/**/*'" -> "depends-on"
    [] tok = "example='demo'" -> "example"

AttrValue(tok) ==
  CASE tok = "depends-on='./dep1.sh'" -> "./dep1.sh"
    [] tok = "depends-on=''" -> ""
    [] tok = "depends-on='./dir1/**/*'" -> "./dir1/**/*"
    [] tok = "example='demo'" -> "demo"

\* String.length of a token
TokLen(tok) ==
  CASE tok = "///" -> 3
    [] tok = "//" -> 2
    [] tok = " " -> 1
    [] tok = "\n" -> 1
    [] tok = "/>" -> 2
    [] tok = "f();" -> 4
    [] tok = ELEMENT_NAME -> 16
    [] tok = "depends-on='./dep1.sh'" -> 22
    [] tok = "depends-on=''" -> 13
    [] tok = "depends-on='./dir1/**/*'" -> 24
    [] tok = "example='demo'" -> 14

\* what \s matches
Whitespace == {" ", "\n"}

\* options.reStart of TSDirectiveProcessor
reStart == "///"

\* what options.reContinuation of TSDirectiveProcessor matches
reContinuation == {"//", "///"}

\* attrNameProcessors: [camelcase]
camelcase(name) ==
  CASE name = "depends-on" -> "dependsOn"
    [] name = "example" -> "example"

allowedAttributes == {"dependsOn"}

\* the attribute lists of the elements that are written
AttrLists ==
  {<<>>, <<"depends-on='./dep1.sh'">>, <<"depends-on=''">>,
   <<"depends-on='./dir1/**/*'">>, <<"example='demo'">>,
   <<"depends-on='./dep1.sh'", "example='demo'">>}

\* How a file is written, line by line.  A block is a line of code, an empty
\* line, a two-slash comment that holds an element, an element on one line
\* (after code or not), an element over several lines, each following line
\* prefixed by a continuation token, or an element that is not closed.
Block(kind, code, tok, attrs) ==
  [kind |-> kind, code |-> code, tok |-> tok, attrs |-> attrs]

Blocks ==
  {Block("code", TRUE, "///", <<>>),
   Block("blank", FALSE, "///", <<>>),
   Block("comment", FALSE, "//", <<"example='demo'">>),
   Block("unclosed", FALSE, "///", <<"depends-on='./dep1.sh'">>)}
    \cup {Block("single", c, "///", a) : c \in BOOLEAN, a \in AttrLists}
    \cup {Block("multi", FALSE, t, a) : t \in reContinuation, a \in AttrLists}

RECURSIVE Concat(_)
\* the concatenation of a sequence of sequences
Concat(ss) == IF ss = <<>> THEN <<>> ELSE Head(ss) \o Concat(Tail(ss))

\* an element on one line
Element(attrs) ==
  <<ELEMENT_NAME>> \o Concat([i \in DOMAIN attrs |-> <<" ", attrs[i]>>])
    \o <<" ", "/>">>

\* the text of a block
Render(b) ==
  CASE b.kind = "code" -> <<"f();">>
    [] b.kind = "blank" -> <<>>
    [] b.kind = "comment" -> <<"//", " ">> \o Element(b.attrs)
    [] b.kind = "unclosed" -> <<reStart, " ", ELEMENT_NAME, " ", b.attrs[1]>>
    [] b.kind = "single" ->
         (IF b.code THEN <<"f();", " ">> ELSE <<>>)
           \o <<reStart, " ">> \o Element(b.attrs)
    [] b.kind = "multi" ->
         <<reStart, " ", ELEMENT_NAME>>
           \o Concat([i \in DOMAIN b.attrs |-> <<"\n", b.tok, " ", b.attrs[i]>>])
           \o <<"\n", b.tok, " ", "/>">>

\* the text of a file: its blocks, one below the other
RenderAll(bs) ==
  Concat([i \in DOMAIN bs |->
            IF i = 1 THEN Render(bs[i]) ELSE <<"\n">> \o Render(bs[i])])

Min(S) == CHOOSE x \in S : \A y \in S : x <= y

Max(S) == CHOOSE x \in S : \A y \in S : x >= y

RECURSIVE SkipWhile(_, _, _)
\* the first index from j on whose token is not in S: what \s* and \n+ take
SkipWhile(c, j, S) ==
  IF j <= Len(c) /\ c[j] \in S THEN SkipWhile(c, j + 1, S) ELSE j

\* the end of the line that holds index i: what .* takes ('.' takes no newline)
Eol(c, i) ==
  LET S == {k \in i..Len(c) : c[k] = "\n"}
  IN IF S = {} THEN Len(c) + 1 ELSE Min(S)

\* reStart \s* <dependency-tree \s matches at index k; the element name is at
\* the index this gives, 0 when there is no match
OpenAt(c, k) ==
  IF k <= Len(c) /\ c[k] = reStart
    THEN LET j == SkipWhile(c, k + 1, Whitespace)
         IN IF j + 1 <= Len(c) /\ c[j] = ELEMENT_NAME /\ c[j + 1] \in Whitespace
              THEN j ELSE 0
    ELSE 0

\* [^>]*/> after the element name at j and the \s that follows it: the index
\* of the '/>' that closes, 0 when the first '>' is not the one of a '/>'
CloseOf(c, j) ==
  LET S == {m \in (j + 2)..Len(c) : c[m] = "/>"}
  IN IF S = {} THEN 0 ELSE Min(S)

\* fullMatch.indexOf(groupMatch), from index i of the content
IndexOf(c, i, group) ==
  Min({p \in i..Len(c) :
         p + Len(group) - 1 <= Len(c) /\ SubSeq(c, p, p + Len(group) - 1) = group})

RECURSIVE SumLen(_, _, _)
\* the length of the text of the tokens from index a to index b
SumLen(c, a, b) == IF a > b THEN 0 ELSE TokLen(c[a]) + SumLen(c, a + 1, b)

\* getNextSymbolPosition(content.slice(0, p)): the line and the column of
\* the token at index p
getNextSymbolPosition(c, p) ==
  LET newlines == {k \in 1..(p - 1) : c[k] = "\n"}
      lineStart == IF newlines = {} THEN 1 ELSE Max(newlines) + 1
  IN <<Cardinality(newlines) + 1, SumLen(c, lineStart, p - 1) + 1>>

\* errorPayload(match, group), with the error class and the message
DirectiveProcessorError(type, message, c, i, group) ==
  LET pos == getNextSymbolPosition(c, IndexOf(c, i, group))
  IN [type |-> type, message |-> message, line |-> pos[1], column |-> pos[2]]

RECURSIVE StripLoop(_, _, _)
StripLoop(body, i, tokens) ==
  IF i > Len(body) THEN <<>>
  ELSE LET j == SkipWhile(body, i + 1, Whitespace)
       IN IF body[i] = "\n" /\ j <= Len(body) /\ body[j] \in tokens
            THEN StripLoop(body, j + 1, tokens)
            ELSE <<body[i]>> \o StripLoop(body, i + 1, tokens)

\* A slip: only the start token is taken as a continuation token.
StripContinuations_StartTokenOnly(body) == StripLoop(body, 1, {reStart})

\* body.replace(this.reMultilineDirectiveDelimiter, ''): every newline that
\* is followed by whitespace and a continuation token goes, with both
StripContinuations(body) == StripLoop(body, 1, reContinuation)

\* xml2js in strict mode on one element: the name, attributes that each
\* follow whitespace, '/>'.  It gives the attributes object, keys processed by
\* camelcase, in the order written; undefined for an element without
\* attribute; a parse error for anything else.
Xml2js(singleLineBody) ==
  LET n == Len(singleLineBody)
      inner == 2..(n - 1)
      attrAt == {k \in inner : singleLineBody[k] \in AttrTokens}
      wellFormed ==
        /\ \A k \in inner : singleLineBody[k] \in Whitespace \cup AttrTokens
        /\ \A k \in attrAt : singleLineBody[k - 1] \in Whitespace
      keysInOrder == SelectSeq(SubSeq(singleLineBody, 2, n - 1),
                               LAMBDA tok : tok \in AttrTokens)
  IN [failed |-> ~ wellFormed,
      undefined |-> attrAt = {},
      attributes |-> IF wellFormed
                       THEN [k \in DOMAIN keysInOrder |->
                               <<camelcase(AttrName(keysInOrder[k])),
                                 AttrValue(keysInOrder[k])>>]
                       ELSE <<>>]

\* assertDirective(obj): the message of the TypeError it throws, <<>> when
\* it returns obj
assertDirective(parsed) ==
  IF parsed.undefined THEN <<"Unexpected type: ", "undefined">>
  ELSE LET unknown == {k \in DOMAIN parsed.attributes :
                         parsed.attributes[k][1] \notin allowedAttributes}
       IN IF unknown = {} THEN <<>>
          ELSE <<"Unknown attribute: '", parsed.attributes[Min(unknown)][1], "'">>

RECURSIVE GetDirectivesLoop(_, _, _)
\* getDirectives: the while loop, from lastIndex on
GetDirectivesLoop(c, lastIndex, directives) ==
  LET eol == Eol(c, lastIndex)
      bodies == {k \in lastIndex..(eol - 1) :
                   OpenAt(c, k) # 0 /\ CloseOf(c, OpenAt(c, k)) # 0}
      opens == {k \in lastIndex..(eol - 1) : OpenAt(c, k) # 0}
      done(threw, error, ds, at) ==
        [threw |-> threw, error |-> error, directives |-> ds, lastIndex |-> at]
  IN IF bodies # {}
       THEN \* the first alternative of reNext: a whole element
            LET j == OpenAt(c, Max(bodies))
                m == CloseOf(c, j)
                body == SubSeq(c, j, m)
                next == SkipWhile(c, Eol(c, m), {"\n"})
                parsed == Xml2js(StripContinuations(body))
            IN IF parsed.failed
                 THEN done(TRUE, DirectiveProcessorError("parse", <<"xml2js">>,
                                                         c, lastIndex, body),
                           directives, next)
               ELSE IF assertDirective(parsed) # <<>>
                 THEN done(TRUE, DirectiveProcessorError("validation",
                                                         assertDirective(parsed),
                                                         c, lastIndex, body),
                           directives, next)
               ELSE GetDirectivesLoop(c, next,
                                      Append(directives, parsed.attributes))
     ELSE IF opens # {}
       THEN \* the second alternative: an element that is not closed
            LET k == Max(opens)
                j == OpenAt(c, k)
                next == SkipWhile(c, Eol(c, j + 2), {"\n"})
            IN done(TRUE, DirectiveProcessorError("syntax", <<>>, c, lastIndex,
                                                  SubSeq(c, k, j)),
                    directives, next)
     ELSE IF eol > lastIndex
       THEN \* the third alternative: the rest of the line
            GetDirectivesLoop(c, SkipWhile(c, eol, {"\n"}), directives)
     ELSE \* reNext does not match: the loop is over
          done(FALSE, NoResult.error, directives, lastIndex)

\* the value of the dependsOn key of a directive, "" (falsy) when it has none
DependsOn(directive) ==
  LET at == {k \in DOMAIN directive : directive[k][1] = "dependsOn"}
  IN IF at = {} THEN "" ELSE directive[Min(at)][2]

RECURSIVE ForEachDirective(_, _, _, _, _)
\* process, lines 164-172: directives.forEach, from index i
ForEachDirective(file, directives, i, st, answers) ==
  IF i > Len(directives) THEN st
  ELSE LET dependsOn == DependsOn(directives[i])
       IN ForEachDirective(file, directives, i + 1,
            IF Truthy(dependsOn)
              THEN ResolveAndCollect(file, TransformReference(dependsOn, file),
                                     st, answers)
              ELSE st,
            answers)

\* DirectiveProcessor.process(file, contents, missing, files, dependencyTree)
DirectiveProcess(file, c, st, answers) ==
  LET got == GetDirectivesLoop(c, 1, <<>>)
      out == IF got.threw THEN st
             ELSE ForEachDirective(file, got.directives, 1, st, answers)
  IN [threw |-> got.threw, error |-> got.error,
      directives |-> IF got.threw THEN <<>> ELSE got.directives,
      lastIndex |-> got.lastIndex,
      importedFiles |-> out.importedModules,
      missingModules |-> out.missingModules,
      calls |-> out.calls]

\* the file that is processed
DirectiveFile == "/r/a.ts"

\* the files that can exist next to it
OtherFiles == {"/r/dep1.sh", "/r/dir1/dep5.py"}

\* path.resolve(directory, request)
PathOf(request) ==
  CASE request = <<"/r", "./dep1.sh">> -> "/r/dep1.sh"
    [] request = <<"/r", "./dir1/**/*">> -> "/r/dir1/**/*"

\* DependencyTree.createResolver(): enhanced-resolve over the file system,
\* which returns the path of a request that names an existing file and
\* throws for any other
DefaultResolver(disk_) ==
  [request \in {<<"/r", "./dep1.sh">>, <<"/r", "./dir1/**/*">>} |->
     IF PathOf(request) \in disk_
       THEN [kind |-> "returns", value |-> PathOf(request)]
       ELSE [kind |-> "throws", value |-> ""]]

\* a DependencyTree built with default arguments is handed a file
DInit ==
  /\ dBlocks \in SeqsUpTo(Blocks, MaxBlocks)
  /\ content = RenderAll(dBlocks)
  /\ exists \in SUBSET OtherFiles
  /\ dpc = "called"
  /\ dResult = NoResult
  /\ GatherIdle
  /\ ResolveIdle
  /\ QIdle
  /\ TypeScriptIdle
  /\ FeatureIdle

\* getImportedFiles calls process of the directive processor on the file
DirectiveProcessCall ==
  /\ dpc = "called"
  /\ LET out == DirectiveProcess(DirectiveFile, content,
                  [importedModules |-> {}, missingModules |-> missing,
                   calls |-> resolverCalls, threw |-> FALSE],
                  DefaultResolver(exists))
     IN /\ dResult' = [threw |-> out.threw, error |-> out.error,
                       directives |-> out.directives,
                       importedFiles |-> out.importedFiles,
                       lastIndex |-> out.lastIndex]
        /\ missing' = out.missingModules
        /\ resolverCalls' = out.calls
  /\ dpc' = "returned"
  /\ UNCHANGED <<dBlocks, content, exists>>
  /\ UNCHANGED <<files, batchSize, gpc, fileIndex, fileToDeps, disk, ran>>
  /\ UNCHANGED <<resolver, importedModules, handed, escaped>>
  /\ UNCHANGED <<qvars, fvars, tvars>>

DNext == DirectiveProcessCall

SpecDirective == DInit /\ [][DNext]_vars

(***************************************************************************)
(* TypeScriptFileProcessor.process                                         *)
(*                                                                         *)
(* The files of the model are no tests (.tests.ts), so the look for a       *)
(* snapshot file at the end of process finds nothing to do.                *)
(***************************************************************************)
\* the files handed to the processor: a module and an entry point
TsFiles == {"/r/a.ts", "/r/m.entry.ts"}

\* reEntryPoint.test(file)
isEntryPointFileName(file) == file = "/r/m.entry.ts"

\* What require(file) meets in an entry point: the module cannot be loaded,
\* it exports no entryPoint, its entryPoint has no file property, or the
\* property is './main'.
Descriptors == {"unloadable", "noEntryPoint", "noFile", "ok"}

\* the value undefined, where a reference string is expected
UndefinedReference == "<undefined>"

\* what ts.preProcessFile finds: the import specifiers of the file
ImportLists == {<<>>, <<"./b">>}

\* the transformReference hooks: the default (ref) => ref, and a hook that
\* returns several strings for one reference
Hooks == {"identity", "list"}

\* dependencyTree.transformReference(fileName, file)
TransformReferenceBy(hook, fileName) ==
  IF hook = "identity" THEN StringModule(fileName)
  ELSE ArrayModule(<<fileName, "./main">>)

\* What resolveModuleName gives for a specifier: a module of the project, a
\* module of an external library, or no resolvedModule.
TsOutcomes == {"internal", "external", "unresolved"}

\* tsResolve.resolvedModule.resolvedFileName
ResolvedFileName(moduleName) ==
  CASE moduleName = "./b" -> "/r/b.ts"
    [] moduleName = "./main" -> "/r/main.ts"

\* the requests the fallback to enhanced-resolve can make
TsRequests == {<<"/r", "./b">>, <<"/r", "./main">>}

\* Every input of process.  undefinedThrows says what the TypeScript
\* resolver does with a moduleName that is undefined: it is outside its
\* contract and may raise a TypeError or find nothing.
TsInputs ==
  {i \in [file : TsFiles, imports : ImportLists, descriptor : Descriptors,
          hook : Hooks, ts : [{"./b", "./main"} -> TsOutcomes],
          undefinedThrows : BOOLEAN, answers : [TsRequests -> Results]] :
     ~ isEntryPointFileName(i.file) => i.descriptor = "ok"}

\* getEntryPointImport(file): require(file).entryPoint.file, or the rethrown
\* exception of the try block
GetEntryPointImport(descriptor) ==
  CASE descriptor = "unloadable" -> [threw |-> TRUE, value |-> ""]
    [] descriptor = "noEntryPoint" -> [threw |-> TRUE, value |-> ""]
    [] descriptor = "noFile" -> [threw |-> FALSE, value |-> UndefinedReference]
    [] descriptor = "ok" -> [threw |-> FALSE, value |-> "./main"]

\* process, lines 107-141: one turn of the loop over filesList, after the
\* call of transformReference.  The default hook gives undefined back for
\* undefined; resolveAndCollect of undefined adds nothing, its last test
\* being `if (referencedModule)`.
TsReference(i, fileName, st) ==
  LET referencedFile == TransformReferenceBy(i.hook, fileName)
  IN IF referencedFile.isArray
       THEN [st EXCEPT !.threw = TRUE, !.error = "No support glob import in TS"]
     ELSE IF fileName = UndefinedReference
       THEN IF i.undefinedThrows
              THEN [st EXCEPT !.threw = TRUE, !.error = "TypeError"]
              ELSE st
     ELSE IF i.ts[fileName] = "internal"
       THEN [st EXCEPT !.importedModules = @ \cup {ResolvedFileName(fileName)}]
     ELSE IF i.ts[fileName] = "external" THEN st
     ELSE ResolveAndCollect(i.file, referencedFile, st, i.answers)

RECURSIVE TsLoop(_, _, _, _)
\* process, lines 107-141: the loop over filesList, from index k
TsLoop(i, filesList, k, st) ==
  IF k > Len(filesList) \/ st.threw THEN st
  ELSE TsLoop(i, filesList, k + 1,
              TsReference(i, filesList[k],
                          [st EXCEPT !.transformed = Append(@, filesList[k])]))

\* TypeScriptFileProcessor.process(file, contents, missing, files, tree)
TypeScriptProcess(i, st) ==
  IF isEntryPointFileName(i.file)
    THEN LET import == GetEntryPointImport(i.descriptor)
         IN IF import.threw
              THEN [st EXCEPT !.threw = TRUE, !.error = "Malformed entry point"]
              ELSE TsLoop(i, Append(i.imports, import.value), 1, st)
    ELSE TsLoop(i, i.imports, 1, st)

\* a file is handed to the TypeScript processor of a DependencyTree
TsInit ==
  /\ tsInput \in TsInputs
  /\ tpc = "called"
  /\ tsOutput = NoOutput
  /\ GatherIdle
  /\ ResolveIdle
  /\ QIdle
  /\ FeatureIdle
  /\ DirectiveIdle

\* getImportedFiles calls process of the TypeScript processor on the file
TypeScriptProcessCall ==
  /\ tpc = "called"
  /\ LET out == TypeScriptProcess(tsInput,
                  [importedModules |-> {}, missingModules |-> missing,
                   calls |-> resolverCalls, threw |-> FALSE, error |-> "none",
                   transformed |-> <<>>])
     IN /\ tsOutput' = [threw |-> out.threw, error |-> out.error,
                        importedFiles |-> IF out.threw THEN {}
                                          ELSE out.importedModules,
                        transformed |-> out.transformed]
        /\ missing' = out.missingModules
        /\ resolverCalls' = out.calls
  /\ tpc' = "returned"
  /\ UNCHANGED tsInput
  /\ UNCHANGED <<files, batchSize, gpc, fileIndex, fileToDeps, disk, ran>>
  /\ UNCHANGED <<resolver, importedModules, handed, escaped>>
  /\ UNCHANGED <<qvars, fvars, dvars>>

TsNext == TypeScriptProcessCall

SpecTypeScript == TsInit /\ [][TsNext]_vars

(***************************************************************************)
(* The queries                                                             *)
(***************************************************************************)
QInit ==
  /\ qFileToDeps \in EdgeMaps
  /\ qFiles \in SeqsUpTo(Nodes, MaxEntrypoints)
  /\ qCall \in {"getDependencies", "getReferences", "transpose"}
  /\ qpc = "called"
  /\ edges = qFileToDeps
  /\ nTransposed = 0
  /\ epIndex = 1
  /\ toVisit = <<>>
  /\ visited = {}
  /\ yielded = <<>>
  /\ related = {}
  /\ results = <<>>
  /\ GatherIdle
  /\ ResolveIdle
  /\ FeatureIdle
  /\ DirectiveIdle
  /\ TypeScriptIdle

\* getDependencies: new DirectedGraph(fileToDeps), then findRelatedFiles
GetDependencies ==
  /\ qpc = "called" /\ qCall = "getDependencies"
  /\ edges' = qFileToDeps
  /\ qpc' = "walk"
  /\ UNCHANGED <<qFileToDeps, qFiles, qCall, nTransposed, epIndex, toVisit,
                 visited, yielded, related>>
  /\ UNCHANGED <<gvars, rvars, fvars, dvars, tvars, results>>

\* A slip in getReferences: the graph is walked without being transposed.
GetReferences_NoTranspose ==
  /\ qpc = "called" /\ qCall = "getReferences"
  /\ edges' = qFileToDeps
  /\ nTransposed' = nTransposed + 1
  /\ qpc' = "walk"
  /\ UNCHANGED <<qFileToDeps, qFiles, qCall, epIndex, toVisit, visited,
                 yielded, related>>
  /\ UNCHANGED <<gvars, rvars, fvars, dvars, tvars, results>>

\* A slip in getReferences: the reversed edges are written into the Map the
\* caller handed in, and that Map is walked.
GetReferences_InPlace ==
  /\ qpc = "called" /\ qCall = "getReferences"
  /\ qFileToDeps' = Transpose(qFileToDeps)
  /\ edges' = Transpose(qFileToDeps)
  /\ nTransposed' = nTransposed + 1
  /\ qpc' = "walk"
  /\ UNCHANGED <<qFiles, qCall, epIndex, toVisit, visited, yielded, related>>
  /\ UNCHANGED <<gvars, rvars, fvars, dvars, tvars, results>>

\* getReferences: new DirectedGraph(fileToDeps).transpose(), then findRelatedFiles
GetReferences ==
  /\ qpc = "called" /\ qCall = "getReferences"
  /\ edges' = Transpose(qFileToDeps)
  /\ nTransposed' = nTransposed + 1
  /\ qpc' = "walk"
  /\ UNCHANGED <<qFileToDeps, qFiles, qCall, epIndex, toVisit, visited,
                 yielded, related>>
  /\ UNCHANGED <<gvars, rvars, fvars, dvars, tvars, results>>

\* graph.transpose() on the graph at hand, giving the next graph at hand
TransposeCall ==
  /\ qpc = "called" /\ qCall = "transpose"
  /\ nTransposed < MaxTransposes
  /\ edges' = Transpose(edges)
  /\ nTransposed' = nTransposed + 1
  /\ UNCHANGED <<qFileToDeps, qFiles, qCall, qpc, epIndex, toVisit, visited,
                 yielded, related>>
  /\ UNCHANGED <<gvars, rvars, fvars, dvars, tvars, results>>

\* A slip in manyWalkDfs: walkDfs(entrypoint) is called without the shared
\* set, so each walk starts from its default `visited = new Set()`.
ManyWalkDfsNext_FreshVisited ==
  /\ qpc = "walk" /\ toVisit = <<>> /\ epIndex <= Len(qFiles)
  /\ toVisit' = <<qFiles[epIndex]>>
  /\ epIndex' = epIndex + 1
  /\ visited' = {}
  /\ UNCHANGED <<qFileToDeps, qFiles, qCall, qpc, edges, nTransposed,
                 yielded, related>>
  /\ UNCHANGED <<gvars, rvars, fvars, dvars, tvars, results>>

\* A slip in manyWalkDfs: the entrypoints are taken from the end of the list.
ManyWalkDfsNext_LastFirst ==
  /\ qpc = "walk" /\ toVisit = <<>> /\ epIndex <= Len(qFiles)
  /\ toVisit' = <<qFiles[Len(qFiles) + 1 - epIndex]>>
  /\ epIndex' = epIndex + 1
  /\ UNCHANGED <<qFileToDeps, qFiles, qCall, qpc, edges, nTransposed, visited,
                 yielded, related>>
  /\ UNCHANGED <<gvars, rvars, fvars, dvars, tvars, results>>

\* manyWalkDfs: the stack of the previous walk is empty, the next entrypoint
\* starts its walkDfs (toVisit.add(entrypoint))
ManyWalkDfsNext ==
  /\ qpc = "walk" /\ toVisit = <<>> /\ epIndex <= Len(qFiles)
  /\ toVisit' = <<qFiles[epIndex]>>
  /\ epIndex' = epIndex + 1
  /\ UNCHANGED <<qFileToDeps, qFiles, qCall, qpc, edges, nTransposed, visited,
                 yielded, related>>
  /\ UNCHANGED <<gvars, rvars, fvars, dvars, tvars, results>>

\* A slip in walkDfs: `continue` is missing its effect, a popped node that was
\* visited is not yielded again but its successors are pushed again.
WalkDfsStep_RepushVisited ==
  /\ qpc = "walk" /\ toVisit # <<>>
  /\ LET node == toVisit[Len(toVisit)]
         rest == SubSeq(toVisit, 1, Len(toVisit) - 1)
     IN /\ IF node \in visited
             THEN UNCHANGED <<visited, yielded, related>>
             ELSE /\ yielded' = Append(yielded, node)
                  /\ related' = related \cup {node}
                  /\ visited' = visited \cup {node}
        /\ IF MapHas(edges, node)
             THEN \E outNodes \in Orders(edges[node]) :
                    toVisit' = rest \o outNodes
             ELSE toVisit' = rest
  /\ UNCHANGED <<qFileToDeps, qFiles, qCall, qpc, edges, nTransposed, epIndex>>
  /\ UNCHANGED <<gvars, rvars, fvars, dvars, tvars, results>>

\* A slip in walkDfs: toVisit.addMany(this.edges.get(node)) without the test
\* of outNodes; iterating undefined raises a TypeError out of the generator.
WalkDfsStep_NoKeyCheck ==
  /\ qpc = "walk" /\ toVisit # <<>>
  /\ LET node == toVisit[Len(toVisit)]
         rest == SubSeq(toVisit, 1, Len(toVisit) - 1)
     IN IF node \in visited
          THEN /\ toVisit' = rest
               /\ UNCHANGED <<visited, yielded, related, qpc>>
          ELSE /\ yielded' = Append(yielded, node)
               /\ related' = related \cup {node}
               /\ visited' = visited \cup {node}
               /\ IF MapHas(edges, node)
                    THEN /\ \E outNodes \in Orders(edges[node]) :
                              toVisit' = rest \o outNodes
                         /\ UNCHANGED qpc
                    ELSE /\ toVisit' = rest
                         /\ qpc' = "threw"
  /\ UNCHANGED <<qFileToDeps, qFiles, qCall, edges, nTransposed, epIndex>>
  /\ UNCHANGED <<gvars, rvars, fvars, dvars, tvars, results>>

\* walkDfs: one turn of the while loop
WalkDfsStep ==
  /\ qpc = "walk" /\ toVisit # <<>>
  /\ LET node == toVisit[Len(toVisit)]
         rest == SubSeq(toVisit, 1, Len(toVisit) - 1)
     IN IF node \in visited
          THEN /\ toVisit' = rest
               /\ UNCHANGED <<visited, yielded, related>>
          ELSE /\ yielded' = Append(yielded, node)
               /\ related' = related \cup {node}
               /\ visited' = visited \cup {node}
               /\ IF MapHas(edges, node)
                    THEN \E outNodes \in Orders(edges[node]) :
                           toVisit' = rest \o outNodes
                    ELSE toVisit' = rest
  /\ UNCHANGED <<qFileToDeps, qFiles, qCall, qpc, edges, nTransposed, epIndex>>
  /\ UNCHANGED <<gvars, rvars, fvars, dvars, tvars, results>>

\* A slip in findRelatedFiles: the entrypoints are left in the result.
FindRelatedFilesReturn_KeepEntrypoints ==
  /\ qpc = "walk" /\ toVisit = <<>> /\ epIndex > Len(qFiles)
  /\ qpc' = "returned"
  /\ UNCHANGED <<qFileToDeps, qFiles, qCall, edges, nTransposed, epIndex,
                 toVisit, visited, yielded, related, results>>
  /\ UNCHANGED <<gvars, rvars, fvars, dvars, tvars, results>>

\* findRelatedFiles: the walks are over, the entrypoints are deleted
FindRelatedFilesReturn ==
  /\ qpc = "walk" /\ toVisit = <<>> /\ epIndex > Len(qFiles)
  /\ related' = related \ Range(qFiles)
  /\ qpc' = "returned"
  /\ UNCHANGED <<qFileToDeps, qFiles, qCall, edges, nTransposed, epIndex,
                 toVisit, visited, yielded>>
  /\ UNCHANGED <<gvars, rvars, fvars, dvars, tvars, results>>

\* The caller keeps the Set it was given and asks the other question about
\* the same edge map and files: the static methods take fileToDeps anew,
\* build a new DirectedGraph, and findRelatedFiles makes a new `visited` Set.
QueryAgain ==
  /\ qpc = "returned"
  /\ Len(results) + 1 < MaxQueries
  /\ results' = Append(results, related)
  /\ qCall' = IF qCall = "getDependencies" THEN "getReferences"
                                           ELSE "getDependencies"
  /\ qpc' = "called"
  /\ edges' = qFileToDeps
  /\ epIndex' = 1
  /\ toVisit' = <<>>
  /\ visited' = {}
  /\ yielded' = <<>>
  /\ related' = {}
  /\ UNCHANGED <<qFileToDeps, qFiles, nTransposed>>
  /\ UNCHANGED <<gvars, rvars, fvars, dvars, tvars>>

QNext ==
  \/ GetDependencies
  \/ GetReferences
  \/ TransposeCall
  \/ ManyWalkDfsNext
  \/ WalkDfsStep
  \/ FindRelatedFilesReturn

SpecGraph == QInit /\ [][QNext]_vars

QueriesNext ==
  \/ GetDependencies
  \/ GetReferences
  \/ TransposeCall
  \/ ManyWalkDfsNext
  \/ WalkDfsStep
  \/ FindRelatedFilesReturn
  \/ QueryAgain

\* several queries, one after the other, on one edge map
SpecQueries == QInit /\ [][QueriesNext]_vars

\* The caller of a query runs it to its end: findRelatedFiles consumes the
\* generator in a for-of loop, so a step of the walks that can be taken is
\* taken.
SpecGraphLive ==
  QInit /\ [][QNext]_vars /\ WF_vars(ManyWalkDfsNext \/ WalkDfsStep)

(***************************************************************************)
(* Reachability, stated without the walk                                   *)
(***************************************************************************)
\* the successors of a set of nodes; a node that is no key has none
Successors(m, S) == UNION {m[n] : n \in S \cap DOMAIN m}

RECURSIVE Closure(_, _, _)
\* R and everything reachable from R, after at most k more steps
Closure(m, R, k) ==
  IF k = 0 THEN R ELSE Closure(m, R \cup Successors(m, R), k - 1)

\* the nodes reachable from some element of S by a path of length >= 1
ReachPlus(m, S) == Closure(m, Successors(m, S), Cardinality(Nodes))

\* the nodes from which some element of S is reachable by a path of length >= 1
CoReachPlus(m, S) == {n \in Nodes : ReachPlus(m, {n}) \cap S # {}}

\* the nodes reachable from some element of S by a path of length >= 0
Reach(m, S) == S \cup ReachPlus(m, S)

\* manyWalkDfs(qFiles) has yielded its last node
WalksOver == qpc = "returned" \/ (qpc = "walk" /\ toVisit = <<>> /\ epIndex > Len(qFiles))

\* no node occurs twice in the sequence
DuplicateFree(seq) == \A p, q \in 1..Len(seq) : seq[p] = seq[q] => p = q

(***************************************************************************)
(* What the resolver's answers say of a reference, stated without the code *)
(***************************************************************************)
\* the resolver's answer to reference str of file
AnswerTo(file, str) == resolver[<<Dirname(file), str>>]

\* the resolver returns a path for reference str of file
Resolves(file, str) ==
  AnswerTo(file, str).kind = "returns" /\ Truthy(AnswerTo(file, str).value)

\* the resolver throws on reference str of file
Throws(file, str) == AnswerTo(file, str).kind = "throws"

\* the strings of file handed to resolveAndCollect so far
HandedOf(file) == {h[2] : h \in {x \in handed : x[1] = file}}

\* the set stored under file in the missing Map, empty when file is no key
MissingOf(file) == IF MapHas(missing, file) THEN missing[file] ELSE {}

(***************************************************************************)
(* Claims about gather                                                     *)
(***************************************************************************)
\* C4: when gather completes normally, the keys of the resolved map are exactly
\* the discovered files: a discovered file is a key also when it has no
\* dependency, and a path that was only referenced is no key.
C4_ResolvedKeysAreDiscoveredFiles ==
  gpc = "returned" =>
    /\ DOMAIN fileToDeps = Range(files)
    /\ \A f \in DOMAIN fileToDeps : \A dep \in fileToDeps[f] :
         dep \notin Range(files) => ~ MapHas(fileToDeps, dep)

\* gather has returned a map with a key of no dependency and a key that
\* depends on a path that was not discovered
C4_Witness ==
  /\ gpc = "returned"
  /\ \E f \in DOMAIN fileToDeps : fileToDeps[f] = {}
  /\ \E f \in DOMAIN fileToDeps : \E dep \in fileToDeps[f] : dep \notin Range(files)

\* C9: gather({batchSize}) with batchSize < 1 fails before any file is read or
\* any processor is run, and returns no map.
C9_BatchSizeBelowOneIsRejected ==
  batchSize < 1 =>
    /\ gpc # "returned"
    /\ disk = EmptyMap
    /\ resolverCalls = {}

\* the resolved set the tree gives file: the answers to its references
ExpectedImported(file) ==
  {AnswerTo(file, str).value :
     str \in {r \in RefsOfFile(disk[file]) :
                r \notin builtinModules /\ Resolves(file, r)}}

\* the missing set the tree gives file: its references without an answer
ExpectedMissing(file) ==
  {r \in RefsOfFile(disk[file]) :
     r \notin builtinModules /\ ~ Resolves(file, r) /\ r # ""}

\* C10: for a fixed file tree the maps gather returns are a function of the
\* tree alone (the files, what each holds, what the resolver answers): the
\* same for every batch size and every order of the steps.
C10_ResultIsAFunctionOfTheTree ==
  gpc = "returned" =>
    /\ \A f \in Range(files) : MapHas(disk, f)
    /\ fileToDeps = [f \in Range(files) |-> ExpectedImported(f)]
    /\ missing = [f \in {g \in Range(files) : ExpectedMissing(g) # {}} |->
                    ExpectedMissing(f)]

\* gather has returned, with a batch size between 1 and the number of files,
\* a resolved edge and a missing reference for a tree of two files
C10_Witness ==
  /\ gpc = "returned"
  /\ Len(files) = 2 /\ files[1] # files[2]
  /\ batchSize \in 1..Len(files)
  /\ missing # EmptyMap
  /\ \E f \in DOMAIN fileToDeps : fileToDeps[f] # {}

\* the processors whose match accepts a file, in the order they were added
MatchingInOrder(info) ==
  SelectSeq(fileProcessors, LAMBDA p : p \in info.match)

\* the matching processors up to and including the first whose process rejects
RECURSIVE UntilReject(_, _, _)
UntilReject(info, procs, i) ==
  IF i > Len(procs) THEN procs
  ELSE IF procs[i] \in info.rejects THEN SubSeq(procs, 1, i)
  ELSE UntilReject(info, procs, i + 1)

\* the process calls of the first k files of the list, all of them completed
RECURSIVE CallsOfFirst(_)
CallsOfFirst(k) ==
  IF k = 0 THEN <<>>
  ELSE LET procs == MatchingInOrder(disk[files[k]])
       IN CallsOfFirst(k - 1) \o [j \in 1..Len(procs) |-> <<files[k], procs[j]>>]

\* the set processor p returns for file: the answers to the references it extracts
ReturnedBy(file, p) ==
  {AnswerTo(file, str).value :
     str \in {r \in Range(disk[file].refs[p]) :
                r \notin builtinModules /\ Resolves(file, r)}}

\* C11: a discovered file that no registered processor matches makes gather
\* fail, and a failed gather returns no map; for a file that some processor
\* matches, process is called on every matching processor in the order the
\* processors were added (up to the first that rejects, which fails gather
\* too), and the file's resolved set is the union of the sets they return.
C11_NoMatchFailsElseAllMatchingRunInOrder ==
  /\ \A f \in DOMAIN disk :
       disk[f].match = {} => (gpc = "failed" /\ ~ MapHas(fileToDeps, f))
  /\ gpc \in {"scanning", "returned", "failed"} =>
       /\ \A k \in 1..(fileIndex - 1) :
            /\ MapHas(disk, files[k]) /\ MapHas(fileToDeps, files[k])
            /\ disk[files[k]].match # {} /\ disk[files[k]].rejects = {}
            /\ fileToDeps[files[k]] =
                 UNION {ReturnedBy(files[k], p) : p \in disk[files[k]].match}
       /\ (\A k \in 1..(fileIndex - 1) : MapHas(disk, files[k])) =>
            IF gpc = "failed"
              THEN /\ MapHas(disk, files[fileIndex])
                   /\ LET info == disk[files[fileIndex]]
                           procs == UntilReject(info, MatchingInOrder(info), 1)
                       IN /\ info.match = {} \/ info.rejects # {}
                          /\ ran = CallsOfFirst(fileIndex - 1)
                                \o [j \in 1..Len(procs) |-> <<files[fileIndex], procs[j]>>]
              ELSE ran = CallsOfFirst(fileIndex - 1)

\* gather has failed on a file that no processor matches, after a file that
\* both processors match and that got the union of two different sets
C11_Witness ==
  /\ gpc = "failed" /\ fileIndex = 2
  /\ disk[files[2]].match = {}
  /\ disk[files[1]].match = Range(fileProcessors)
  /\ Cardinality(fileToDeps[files[1]]) = 2
  /\ ran = <<<<files[1], fileProcessors[1]>>, <<files[1], fileProcessors[2]>>>>

\* the resolved map of a tree, computed from the tree alone
FreshResolved(t) ==
  [f \in Range(GetFilesOf(t)) |->
     IF f = FeatureFile
       THEN {g \in {StoriesFile} :
               t.stories.present /\ t.referenced \cap t.stories.storybooks # {}}
            \cup {g \in {StepsFile} :
                    t.steps.present /\ \E re \in t.steps.regExps : ReTest(re)}
       ELSE {}]

\* the missing map of a tree, computed from the tree alone
FreshMissing(t) ==
  LET lost == t.referenced \ t.stories.storybooks
  IN IF lost = {} THEN EmptyMap
     ELSE [f \in {FeatureFile} |-> {MissingStoriesPath(sb) : sb \in lost}]

\* C12: the maps a gather() invocation returns depend only on the tree at the
\* time of that invocation, whatever earlier invocations on the same instance
\* left in the accumulator maps and in the processor's storybook and
\* step-definition indexes.
C12_LaterGatherDependsOnlyOnTheTree ==
  (gpc = "returned" /\ nGathers >= 1) =>
    /\ fileToDeps = FreshResolved(tree)
    /\ missing = FreshMissing(tree)

\* how many times the path was read during the run
TimesRead(f) == Cardinality({i \in DOMAIN reads : reads[i] = f})

\* C25: during one gather run the content of each discovered file is read
\* from disk at most once, whatever the number of processors that match it
\* and the number of other files whose analysis needs it.
C25_EachFileIsReadAtMostOnce ==
  \A f \in Range(files) : TimesRead(f) <= 1

\* the tasks that have received the index of a promise field
Received(field) ==
  {t \in DOMAIN tasks :
     IF field = "storybookDefinitions"
       THEN tasks[t].pc \in {"gotStorybookDefinitions", "awaitStepsDefinitions", "done"}
            /\ tasks[t].referenced # {}
       ELSE tasks[t].pc = "done"}

\* C26: each index of the feature processor is constructed at most once even
\* when several process calls request it before the first construction has
\* finished; every requester receives the same completed index, that of the
\* files of the list, and a resolved index stays what it was built as.
C26_IndexIsBuiltOnceAndShared ==
  /\ builds.storybookDefinitions <= 1
  /\ builds.stepsDefinitions <= 1
  /\ "storybookDefinitions" \in settled =>
       storybookDefinitions.map = BuildStorybookDefinitions(files, tree)
  /\ "stepsDefinitions" \in settled =>
       stepsDefinitions.map = BuildStepsDefinitions(files, tree)
  /\ \A t \in Received("storybookDefinitions") :
       tasks[t].storyDefinitions = BuildStorybookDefinitions(files, tree)
  /\ \A t \in Received("stepsDefinitions") :
       tasks[t].stepsMap = BuildStepsDefinitions(files, tree)

\* two calls have asked for the storybook index and await it: one promise was
\* created, for an index that is not empty, and it has not resolved
C26_Witness ==
  /\ Len(tasks) >= 2
  /\ \A t \in 1..2 : tasks[t].pc = "awaitStorybookDefinitions"
  /\ "storybookDefinitions" \notin settled
  /\ builds.storybookDefinitions = 1
  /\ DOMAIN storybookDefinitions.map # {}

(***************************************************************************)
(* Claims about resolveAndCollect                                          *)
(***************************************************************************)
\* C5: every reference string handed to resolveAndCollect that is no built-in
\* module name ends in the file's resolved set, as the path the resolver
\* returned, or in the missing map under the file; none is dropped, the empty
\* string included, whether the resolver throws or returns a falsy value.
C5_EveryReferenceIsResolvedOrMissing ==
  \A h \in handed :
    h[2] \notin builtinModules =>
      \/ Resolves(h[1], h[2]) /\ AnswerTo(h[1], h[2]).value \in importedModules[h[1]]
      \/ h[2] \in MissingOf(h[1])

\* C6: a built-in module name is never passed to the resolver and is in
\* neither the resolved set nor the missing map of the file; a file whose only
\* references are built-ins has an empty resolved set and no key in missing.
C6_BuiltinsAreIgnored ==
  /\ \A call \in resolverCalls : call[2] \notin builtinModules
  /\ \A f \in SourceFiles :
       /\ importedModules[f] \cap builtinModules = {}
       /\ MissingOf(f) \cap builtinModules = {}
       /\ (HandedOf(f) # {} /\ HandedOf(f) \subseteq builtinModules) =>
            (importedModules[f] = {} /\ ~ MapHas(missing, f))

\* one file has handed only a built-in and has nothing resolved or missing,
\* while the resolver was asked for the other file, which has a missing entry
C6_Witness ==
  \E f, g \in SourceFiles :
    /\ HandedOf(f) = {"fs"}
    /\ importedModules[f] = {} /\ ~ MapHas(missing, f)
    /\ "fs" \in HandedOf(g) /\ MapHas(missing, g) /\ resolverCalls # {}

\* C7: when resolution of a non-built-in reference r of file f fails, the
\* missing map holds the string r, unchanged, under f, and under no key whose
\* file did not hand r.
C7_FailedReferenceIsMissingVerbatim ==
  \A h \in handed :
    (h[2] \notin builtinModules /\ ~ Resolves(h[1], h[2])) =>
      /\ h[2] \in MissingOf(h[1])
      /\ \A g \in DOMAIN missing : h[2] \in missing[g] => <<g, h[2]>> \in handed

\* C8: an exception thrown by the resolver for one reference never leaves
\* resolveAndCollect: the reference is recorded as missing, and every other
\* reference has the outcome it has without the failing one.
C8_ResolverExceptionIsAbsorbed ==
  \A h \in handed :
    (h[2] \notin builtinModules /\ Throws(h[1], h[2])) =>
      /\ ~ escaped
      /\ h[2] \in MissingOf(h[1])
      /\ \A f \in SourceFiles :
           /\ importedModules[f] =
                {AnswerTo(f, str).value :
                   str \in {r \in HandedOf(f) :
                              r \notin builtinModules /\ Resolves(f, r)}}
           /\ {r \in MissingOf(f) : ~ Throws(f, r)} =
                {r \in HandedOf(f) :
                   r \notin builtinModules /\ ~ Resolves(f, r)
                     /\ ~ Throws(f, r) /\ r # ""}

\* the (file, string) pairs that the call of this step hands for the first
\* time; a pair handed before gets the same answer of the resolver again
NewlyHanded == handed' \ handed

\* the call of this step leaves the entries of every file but f as they were
OnlyEntriesOf(f) ==
  \A g \in SourceFiles \ {f} :
    /\ importedModules'[g] = importedModules[g]
    /\ MapHas(missing', g) <=> MapHas(missing, g)
    /\ MapHas(missing, g) => missing'[g] = missing[g]

\* what the call of this step added to importedModules and to missing[f]
AddedToImported(f) == importedModules'[f] \ importedModules[f]

AddedToMissing(f) ==
  (IF MapHas(missing', f) THEN missing'[f] ELSE {})
    \ (IF MapHas(missing, f) THEN missing[f] ELSE {})

\* C30: a call of resolveAndCollect for file f changes only the importedModules
\* Set it was given and the entry of f in the missing map; the map never gets
\* a key with an empty set; a single string is added to at most one of the
\* two, as one element.
C30_ResolveAndCollectChangesOnlyItsFile ==
  [][/\ \A g \in DOMAIN missing' : missing'[g] # {}
     /\ fileToDeps' = fileToDeps
     /\ IF NewlyHanded = {}
          THEN importedModules' = importedModules /\ missing' = missing
          ELSE \E f \in SourceFiles :
                 /\ \A h \in NewlyHanded : h[1] = f
                 /\ OnlyEntriesOf(f)
                 /\ Cardinality(NewlyHanded) = 1 =>
                      /\ Cardinality(AddedToImported(f) \cup AddedToMissing(f)) <= 1
                      /\ AddedToMissing(f) \subseteq {h[2] : h \in NewlyHanded}]_vars

\* one file has a resolved and a missing reference, the other has handed the
\* empty string, which did not resolve, and has no key in the missing map
C30_Witness ==
  \E f, g \in SourceFiles :
    /\ f # g
    /\ importedModules[f] # {} /\ MapHas(missing, f)
    /\ "" \in HandedOf(g) /\ ~ Resolves(g, "") /\ ~ MapHas(missing, g)

(***************************************************************************)
(* Claims about what the queries leave alone                               *)
(***************************************************************************)
\* the Sets that earlier queries returned are as they were returned
ResultsKept ==
  \A k \in DOMAIN results : k \in DOMAIN results' /\ results'[k] = results[k]

\* C29: no step of getDependencies, getReferences or transpose changes the
\* edge map the caller handed in (same keys, same dependency sets), and no
\* step of a later query changes the Set an earlier query returned.
C29_QueriesLeaveTheEdgeMapAndResultsAlone ==
  [][qFileToDeps' = qFileToDeps /\ ResultsKept]_vars

\* a second query has returned another Set than the first, after a transpose,
\* on an edge map with edges
C29_Witness ==
  /\ qpc = "returned"
  /\ Len(results) = 1
  /\ results[1] # {}
  /\ related # {}
  /\ related # results[1]
  /\ nTransposed = 1
  /\ Pairs(qFileToDeps) # {}

(***************************************************************************)
(* Claims about the TypeScript processor                                   *)
(***************************************************************************)
\* process was called on an entry point
EntryPointProcessed == tpc = "returned" /\ isEntryPointFileName(tsInput.file)

\* C27: for an entry point the processor adds exactly one implicit reference,
\* the value of the file property of the descriptor; when the descriptor
\* cannot be loaded, has no entryPoint or its entryPoint has no file property
\* process fails as a malformed entry point and no undefined reference goes on
\* to the hook and the resolvers.
C27_EntryPointAddsItsFileOrFails ==
  EntryPointProcessed =>
    IF tsInput.descriptor = "ok"
      THEN ~ tsOutput.threw =>
             tsOutput.transformed = Append(tsInput.imports, "./main")
      ELSE /\ tsOutput.threw
           /\ tsOutput.error = "Malformed entry point"
           /\ UndefinedReference \notin Range(tsOutput.transformed)

\* the strings the hook returned for the references of the file
HookStrings ==
  UNION {Range(TransformReferenceBy(tsInput.hook, fileName).arr) :
           fileName \in Range(tsOutput.transformed)}

\* the path the cascade resolved the string to is in the returned set, or the
\* string is in the missing set of the file
ResolvedOrMissing(str) ==
  LET resolved == tsInput.answers[<<Dirname(tsInput.file), str>>]
  IN \/ /\ resolved.kind = "returns"
        /\ Truthy(resolved.value)
        /\ resolved.value \in tsOutput.importedFiles
     \/ /\ MapHas(missing, tsInput.file)
        /\ str \in missing[tsInput.file]

\* C28: when the transformReference hook returns several strings for one
\* reference of a TypeScript file, process does not fail, and each of the
\* strings ends in the returned set or in the missing map.
C28_ListOfTheHookIsHandledElementWise ==
  (/\ tpc = "returned"
   /\ tsInput.hook = "list"
   /\ tsInput.imports # <<>>
   /\ ~ isEntryPointFileName(tsInput.file)) =>
    /\ ~ tsOutput.threw
    /\ \A str \in HookStrings : ResolvedOrMissing(str)

(***************************************************************************)
(* Claims about the directive processor                                    *)
(***************************************************************************)
\* a block that is a well-formed element after a start token
IsDirective(b) == b.kind \in {"single", "multi"}

\* the places of the attributes of a block that are not depends-on
OtherAttrs(b) == {i \in DOMAIN b.attrs : AttrName(b.attrs[i]) # "depends-on"}

\* a block that is an error wherever it stands: an element that is not
\* closed, without attribute, or with an attribute that is not allowed
RaisesAlone(b) ==
  \/ b.kind = "unclosed"
  \/ IsDirective(b) /\ (b.attrs = <<>> \/ OtherAttrs(b) # {})

\* the physical lines a block takes
LinesOf(b) == IF b.kind = "multi" THEN Len(b.attrs) + 2 ELSE 1

RECURSIVE LineOf(_, _)
\* the line of the file on which block k starts
LineOf(bs, k) == IF k = 1 THEN 1 ELSE LineOf(bs, k - 1) + LinesOf(bs[k - 1])

\* the column at which the element of a directive block starts: after the
\* code 'f(); ', if any, and the start token '/// '
ColumnOf(b) == (IF b.code THEN 5 ELSE 0) + 4 + 1

\* process was called on the file and nothing came of it but its result
NothingCollected ==
  /\ resolverCalls = {}
  /\ dResult.importedFiles = {}
  /\ missing = EmptyMap

\* C13: a well-formed element with an attribute other than depends-on (the
\* first error of its file) makes getDirectives raise a validation error that
\* names the attribute and carries the line and the column of the element;
\* no directive of the file becomes a resolution request.
C13_UnknownAttributeIsAValidationError ==
  dpc = "returned" =>
    \A k \in DOMAIN dBlocks :
      (/\ IsDirective(dBlocks[k]) /\ OtherAttrs(dBlocks[k]) # {}
       /\ \A i \in 1..(k - 1) : ~ RaisesAlone(dBlocks[i])) =>
        /\ dResult.threw
        /\ dResult.error.type = "validation"
        /\ dResult.error.message =
             <<"Unknown attribute: '",
               AttrName(dBlocks[k].attrs[Min(OtherAttrs(dBlocks[k]))]), "'">>
        /\ dResult.error.line = LineOf(dBlocks, k)
        /\ dResult.error.column = ColumnOf(dBlocks[k])
        /\ dResult.directives = <<>>
        /\ NothingCollected

\* the element of a block, written on one line
SingleLine(b) ==
  IF b.kind = "multi" THEN Block("single", b.code, reStart, b.attrs) ELSE b

EmptyOrAbsent(b) ==
  IsDirective(b) /\ b.attrs \in {<<>>, <<"depends-on=''">>}

\* a block that holds no element after a start token
NoDirective(b) == b.kind \in {"code", "blank", "comment"}

\* C15: a file whose directives all have an empty depends-on value or no
\* attribute at all is processed without an error, without a resolution
\* request and without an addition to the resolved set or the missing map.
C15_EmptyOrAbsentDependsOnIsANoOp ==
  (/\ dpc = "returned"
   /\ \E k \in DOMAIN dBlocks : EmptyOrAbsent(dBlocks[k])
   /\ \A k \in DOMAIN dBlocks : NoDirective(dBlocks[k]) \/ EmptyOrAbsent(dBlocks[k])) =>
    /\ ~ dResult.threw
    /\ NothingCollected

\* a directive whose depends-on value is the glob pattern
IsGlob(b) == IsDirective(b) /\ b.attrs = <<"depends-on='./dir1/**/*'">>

\* the existing files that the pattern ./dir1/**/* matches, from /r
GlobMatches(disk_) == {f \in disk_ : f = "/r/dir1/dep5.py"}

\* C16: with a DependencyTree built with default arguments, a file whose
\* directives all have a glob pattern as depends-on value gets every existing
\* file that matches the pattern in its resolved set, and nothing in the
\* missing map.
C16_GlobAddsEveryMatchingFile ==
  (/\ dpc = "returned"
   /\ \E k \in DOMAIN dBlocks : IsGlob(dBlocks[k])
   /\ \A k \in DOMAIN dBlocks : NoDirective(dBlocks[k]) \/ IsGlob(dBlocks[k])) =>
    /\ ~ dResult.threw
    /\ dResult.importedFiles = GlobMatches(exists)
    /\ missing = EmptyMap

(***************************************************************************)
(* Claims about the queries                                                *)
(***************************************************************************)
\* C1: getDependencies(E, S) returns exactly the nodes reachable in E from some
\* element of S by a path of length >= 1, minus the elements of S; so it never
\* contains an entrypoint and is empty when no such path leaves S.
C1_GetDependenciesIsReachMinusEntrypoints ==
  (qpc = "returned" /\ qCall = "getDependencies") =>
    /\ related = ReachPlus(qFileToDeps, Range(qFiles)) \ Range(qFiles)
    /\ related \cap Range(qFiles) = {}
    /\ (Successors(qFileToDeps, Range(qFiles)) = {} => related = {})

\* getDependencies has returned a non-empty set for two entrypoints, one of
\* which is reachable from the other and lies on a cycle.
C1_Witness ==
  /\ qpc = "returned" /\ qCall = "getDependencies"
  /\ Len(qFiles) = 2 /\ qFiles[1] # qFiles[2]
  /\ qFiles[2] \in ReachPlus(qFileToDeps, {qFiles[1]})
  /\ qFiles[2] \in ReachPlus(qFileToDeps, {qFiles[2]})
  /\ related # {}

\* C2: getReferences(E, S) equals getDependencies(transpose(E), S): the nodes
\* from which some element of S is reachable by a path of length >= 1, minus S.
C2_GetReferencesIsDependenciesOfTranspose ==
  (qpc = "returned" /\ qCall = "getReferences") =>
    /\ related = CoReachPlus(qFileToDeps, Range(qFiles)) \ Range(qFiles)
    /\ related = ReachPlus(Transpose(qFileToDeps), Range(qFiles)) \ Range(qFiles)

\* getReferences has returned a direct and an indirect referrer of the entrypoint
C2_Witness ==
  /\ qpc = "returned" /\ qCall = "getReferences"
  /\ Cardinality(related) = 2
  /\ \E n \in related : ~ (\E s \in Range(qFiles) :
                                n \in DOMAIN qFileToDeps /\ s \in qFileToDeps[n])
  /\ related # ReachPlus(qFileToDeps, Range(qFiles)) \ Range(qFiles)

\* C3: transpose(transpose(E)) has the (source, target) pairs of E, hence the
\* same reachability; only keys of E with an empty dependency set may disappear.
C3_TransposeTwiceKeepsPairs ==
  (qCall = "transpose" /\ nTransposed = 2) =>
    /\ Pairs(edges) = Pairs(qFileToDeps)
    /\ \A n \in Nodes : ReachPlus(edges, {n}) = ReachPlus(qFileToDeps, {n})
    /\ DOMAIN edges \subseteq DOMAIN qFileToDeps
    /\ \A k \in (DOMAIN qFileToDeps) \ (DOMAIN edges) : qFileToDeps[k] = {}

\* a map with a node of two predecessors and a key with no dependency was
\* transposed twice, and the key is gone
C3_Witness ==
  /\ qCall = "transpose" /\ nTransposed = 2
  /\ \E b \in Nodes : Cardinality({a \in DOMAIN qFileToDeps : b \in qFileToDeps[a]}) >= 2
  /\ (DOMAIN qFileToDeps) \ (DOMAIN edges) # {}
  /\ Pairs(edges) # {}

\* C17: whatever the entrypoint list (duplicates, entrypoints reachable from
\* one another), manyWalkDfs yields every node at most once, yields only
\* nodes reachable from an entrypoint by a path of length >= 0, and by the
\* end of the walks has yielded every such node.
C17_YieldsEachReachableNodeOnce ==
  /\ DuplicateFree(yielded)
  /\ Range(yielded) \subseteq Reach(edges, Range(qFiles))
  /\ WalksOver => Range(yielded) = Reach(edges, Range(qFiles))

\* the walks are over for a list that names the same entrypoint twice, on a
\* cycle from which a third node is reachable: three nodes were yielded
C17_Witness ==
  /\ WalksOver
  /\ Len(qFiles) = 2 /\ qFiles[1] = qFiles[2]
  /\ qFiles[1] \in ReachPlus(edges, {qFiles[1]})
  /\ Len(yielded) = 3

\* a cycle of two nodes, one of which has an edge to itself
CycleWithSelfEdge(m) ==
  \E x, y \in DOMAIN m : x # y /\ y \in m[x] /\ x \in m[y] /\ x \in m[x]

\* the popped node was visited: it is skipped, nothing is yielded, nothing pushed
SkipsVisited ==
  (qpc = "walk" /\ toVisit # <<>> /\ toVisit[Len(toVisit)] \in visited) =>
    /\ toVisit' = SubSeq(toVisit, 1, Len(toVisit) - 1)
    /\ UNCHANGED <<visited, yielded>>

\* C18: manyWalkDfs terminates on every finite edge map, cycles and
\* self-edges included: once the walks have begun they come to their end, and
\* a node already in visited is skipped when it is popped, never yielded
\* again, its successors never pushed again.
C18_ManyWalkDfsTerminates ==
  /\ (qpc = "walk") ~> WalksOver
  /\ [][SkipsVisited]_vars

\* the walks came to their end on a cycle with a self-edge, all of it yielded
C18_Witness ==
  /\ qpc = "returned"
  /\ CycleWithSelfEdge(edges)
  /\ \E x \in Range(qFiles) \cap DOMAIN edges : x \in edges[x]
  /\ Len(yielded) >= 2

\* per entrypoint of the list, the nodes reachable from it by a path of
\* length >= 0
ReachOfEach == [i \in 1..Len(qFiles) |-> Reach(edges, {qFiles[i]})]

\* per yielded node, the first entrypoint of the list from which it is
\* discovered (0 if there is none)
FirstFrom(R) ==
  [p \in 1..Len(yielded) |->
     LET from == {i \in DOMAIN R : yielded[p] \in R[i]}
     IN IF from = {} THEN 0 ELSE CHOOSE i \in from : \A j \in from : i <= j]

\* C19: manyWalkDfs walks the entrypoints in list order and in pre-order:
\* a node first discovered from an earlier entrypoint is yielded before a node
\* first discovered from a later one, the nodes of a walk begin with its
\* entrypoint, and a yielded node that is not an entrypoint comes after one
\* of its direct predecessors.
C19_EntrypointOrderAndPreOrder ==
  LET first == FirstFrom(ReachOfEach)
  IN /\ \A p \in 1..Len(yielded) : first[p] # 0
     /\ \A p, q \in 1..Len(yielded) : p < q => first[p] <= first[q]
     /\ \A p \in 1..Len(yielded) :
          (p = 1 \/ first[p - 1] < first[p]) => yielded[p] = qFiles[first[p]]
     /\ \A p \in 1..Len(yielded) :
          yielded[p] \notin Range(qFiles) =>
            \E q \in 1..(p - 1) : /\ MapHas(edges, yielded[q])
                                  /\ yielded[p] \in edges[yielded[q]]

\* two walks are over: the first yielded its entrypoint and then a successor,
\* the second, whose entrypoint the first did not reach, yielded its own
C19_Witness ==
  /\ WalksOver
  /\ Len(qFiles) = 2 /\ Len(yielded) = 3
  /\ yielded[1] = qFiles[1] /\ yielded[3] = qFiles[2]
  /\ yielded[2] \notin Range(qFiles)
  /\ yielded[3] \notin Reach(edges, {qFiles[1]})

\* the nodes that occur in the edge map, as a key or as an edge target
Occurring(m) == DOMAIN m \cup UNION {m[k] : k \in DOMAIN m}

\* the edge map with an empty entry for every node that has none
Completed(m) == [n \in Nodes |-> IF n \in DOMAIN m THEN m[n] ELSE {}]

\* the direct predecessors of a node
Predecessors(m, n) == {k \in DOMAIN m : n \in m[k]}

\* C20: transpose, manyWalkDfs, getDependencies and getReferences never raise
\* on a node that has no entry in the edge map: the walk gives what it gives
\* on the map completed with empty entries, transpose gives an edge target
\* that is no key its predecessors, and an entrypoint that occurs nowhere in
\* the map contributes nothing to the result of a query.
C20_NodeWithoutEntryHasNoOutEdges ==
  /\ qpc # "threw"
  /\ WalksOver =>
       Range(yielded) =
         Range(qFiles) \cup ReachPlus(Completed(edges), Range(qFiles))
  /\ (qCall = "transpose" /\ nTransposed = 1) =>
       \A t \in Occurring(qFileToDeps) \ DOMAIN qFileToDeps :
         /\ MapHas(edges, t)
         /\ edges[t] = Predecessors(qFileToDeps, t)
  /\ (qpc = "returned" /\ qCall = "getDependencies") =>
       related = ReachPlus(Completed(qFileToDeps),
                           Range(qFiles) \cap Occurring(qFileToDeps))
                   \ Range(qFiles)
  /\ (qpc = "returned" /\ qCall = "getReferences") =>
       related = CoReachPlus(Completed(qFileToDeps),
                             Range(qFiles) \cap Occurring(qFileToDeps))
                   \ Range(qFiles)

\* getDependencies has returned the one dependency of its first entrypoint, a
\* node that is no key of the map; its second entrypoint occurs nowhere in it
C20_Witness ==
  /\ qpc = "returned" /\ qCall = "getDependencies"
  /\ Len(qFiles) = 2
  /\ qFiles[2] \notin Occurring(qFileToDeps)
  /\ Cardinality(related) = 1
  /\ related \cap DOMAIN qFileToDeps = {}

\* the nodes that occur as the target of some edge
Targets(m) == UNION {m[k] : k \in DOMAIN m}

\* what the first transpose() of the input map gave, where it is at hand
TransposedOnce ==
  \/ qCall = "transpose" /\ nTransposed = 1
  \/ qCall = "getReferences" /\ qpc # "called"

\* C21: the key set of transpose(E) is exactly the set of nodes that occur as
\* a target of some edge of E, every successor set of transpose(E) is
\* non-empty, and b maps to a set containing a iff (a, b) is an edge of E.
C21_TransposeKeysAreTheTargets ==
  TransposedOnce =>
    /\ DOMAIN edges = Targets(qFileToDeps)
    /\ \A b \in DOMAIN edges : edges[b] # {}
    /\ \A a, b \in Nodes :
         (MapHas(edges, b) /\ a \in edges[b])
           <=> (MapHas(qFileToDeps, a) /\ b \in qFileToDeps[a])

\* transpose() was applied to a map of two edges with a target that is no key
\* and a key with an empty set that is no target
C21_Witness ==
  /\ qCall = "transpose" /\ nTransposed = 1
  /\ Targets(qFileToDeps) \ DOMAIN qFileToDeps # {}
  /\ \E k \in DOMAIN qFileToDeps \ Targets(qFileToDeps) : qFileToDeps[k] = {}
  /\ Cardinality(Pairs(qFileToDeps)) = 2

\* the attribute mapping a well-formed directive is returned as
MappingOf(b) == [i \in DOMAIN b.attrs |->
                  <<camelcase(AttrName(b.attrs[i])), AttrValue(b.attrs[i])>>]

RECURSIVE DirectivesOf(_)
\* the mappings of the well-formed directives of a file, in file order
DirectivesOf(bs) ==
  IF bs = <<>> THEN <<>>
  ELSE (IF IsDirective(Head(bs)) THEN <<MappingOf(Head(bs))>> ELSE <<>>)
         \o DirectivesOf(Tail(bs))

\* C22: the directive scanner stops without raising only when its cursor has
\* reached the end of the content, whether the content begins with blank
\* lines, has blank lines between directives or lacks a trailing newline;
\* so every well-formed directive of the file is returned.
C22_ScannerStopsOnlyAtTheEnd ==
  (dpc = "returned" /\ ~ dResult.threw) =>
    /\ dResult.lastIndex = Len(content) + 1
    /\ dResult.directives = DirectivesOf(dBlocks)

\* a block whose text holds the closing '/>' of an element
HasClose(b) == b.kind \in {"comment", "single", "multi"}

\* block k opens the element after a start token and nothing closes it: no
\* '/>' follows in the file, so it does not match as a full element
NotClosed(bs, k) ==
  /\ bs[k].kind = "unclosed"
  /\ \A i \in (k + 1)..Len(bs) : ~ HasClose(bs[i])

\* C23: an opening of the element after a start token that is not closed by
\* '/>' (the first error of its file) makes getDirectives raise a syntax
\* error on the line of the opening, between the start token and the
\* element; no directive is returned for the file, also not those found
\* before the error, and nothing of the file is resolved.
C23_UnclosedElementIsASyntaxError ==
  dpc = "returned" =>
    \A k \in DOMAIN dBlocks :
      (/\ NotClosed(dBlocks, k)
       /\ \A i \in 1..(k - 1) : ~ RaisesAlone(dBlocks[i])) =>
        /\ dResult.threw
        /\ dResult.error.type = "syntax"
        /\ dResult.error.line = LineOf(dBlocks, k)
        /\ dResult.error.column \in 1..ColumnOf(dBlocks[k])
        /\ dResult.directives = <<>>
        /\ NothingCollected

\* the number of lines of a file
LineCount(bs) == IF bs = <<>> THEN 1 ELSE LineOf(bs, Len(bs)) + LinesOf(bs[Len(bs)]) - 1

\* the first block of the file that is an error
Offending(bs) == Min({k \in DOMAIN bs : RaisesAlone(bs[k])})

\* C24: the line of a syntax, parse or validation error is 1 plus the number
\* of newlines before the first character of the offending element, its
\* column 1 plus the number of characters between the last newline before
\* that character and the character; both are >= 1 and the line is at most
\* the number of lines of the content.
C24_ErrorPositionIsTheElementStart ==
  (dpc = "returned" /\ dResult.threw) =>
    /\ \E k \in DOMAIN dBlocks : RaisesAlone(dBlocks[k])
    /\ dResult.error.line = LineOf(dBlocks, Offending(dBlocks))
    /\ dResult.error.column = ColumnOf(dBlocks[Offending(dBlocks)])
    /\ dResult.error.line >= 1 /\ dResult.error.column >= 1
    /\ dResult.error.line <= LineCount(dBlocks)

====
